---- MODULE Spec2Model ----
(***************************************************************************)
(* BasicTag: a registry of named, typed tags over caller-owned memory      *)
(* cells (src/unnamed/part_001, library v1.3.2; declarations in            *)
(* src/src/BasicTag.c lines 951-1165).                                     *)
(*                                                                         *)
(* Pointers are modelled as identities: a tag handle is the number of the  *)
(* block malloc returned for it (NULL is 0), the list node that wraps a    *)
(* tag is named after the tag's handle, and byte storage is named by a     *)
(* pair <<owner, handle>>.  Memory is modelled at byte granularity where   *)
(* the code copies bytes (strings, BufferValue structs).                   *)
(***************************************************************************)
EXTENDS Integers, Sequences, FiniteSets, TLC

VARIABLES
    _head,        \* static FunctionalBasicTagNode* _head
    nodes,        \* the malloc'd list nodes: node -> [tag_ptr, next_node]
    _NodeCount,   \* static unsigned int _NodeCount
    _tags_array,  \* static FunctionalBasicTag** _tags_array (<<>> is NULL)
    tags,         \* the malloc'd FunctionalBasicTag records: handle -> record
    mem,          \* the caller's memory cells, one per tag: handle -> content
    bufs,         \* byte storage reached through BufferValue.buffer pointers
    ub,           \* TRUE once the program has read or written memory it may not
    _timestamp_function,  \* static TimestampFunction _timestamp_function
    everRead,     \* history: the live tags readBasicTag has been called on
    last          \* history: the last API call (name, handle, argument, result)

vars == <<_head, nodes, _NodeCount, _tags_array, tags, mem, bufs, ub, _timestamp_function, everRead, last>>

(***************************************************************************)
(* Bounds of the model.                                                    *)
(***************************************************************************)
MaxTags == 3        \* tags alive at once in the registry specification
MaxStrCap == 2      \* largest buffer_value_max_len given to a string-like tag
MaxBufCap == 4      \* largest buffer_value_max_len given to a byte-buffer tag
MaxAlias == 3       \* createTag is not called once it would assign a larger alias

(***************************************************************************)
(* Program constants.                                                      *)
(***************************************************************************)
NULL == 0
NullFn == "NULL"    \* the NULL function pointer
spInt8 == 1
spFloat == 9
spString == 12
spUUID == 15
spBytes == 17
UUIDLen == 36
PtrBytes == 4       \* sizeof(uint8_t*) on the 32-bit targets the library is built for
SizeBytes == 4      \* sizeof(size_t) there: "BufferValue; // Size 12 bytes"

\* Content of memory that malloc returned and nothing has written yet: a
\* value outside the range of the type marks it as indeterminate.
IndetInt8 == 128
IndetByte == 256
IndetFloat == "indeterminate"

Handles == 1..MaxTags
Names == {"testing/string 1", "testing/float 1"}
Timestamps == {0, 100}
Int8Vals == {10, 20}
FloatVals == {"NaN", "3.14"}
CellSize == MaxStrCap + 2        \* bytes of a caller's char array
StringTypes == {spString, spUUID}
FixedTypes == {spInt8, spFloat}

Min(a, b) == IF a < b THEN a ELSE b

(***************************************************************************)
(* C strings: a block of bytes read up to its first NUL.                   *)
(***************************************************************************)
RECURSIVE strlenFrom(_, _)
strlenFrom(block, i) ==
    IF i > Len(block) \/ block[i] = 0 THEN 0 ELSE 1 + strlenFrom(block, i + 1)

strlen(block) == strlenFrom(block, 1)

\* the characters of the string held in a block (terminator excluded)
CStr(block) == SubSeq(block, 1, strlen(block))

\* strcmp(a, b) != 0
strcmpNe(a, b) == CStr(a) # CStr(b)

Zeros(n) == [i \in 1..n |-> 0]

\* memcpy(target, source, n): the first n bytes of target replaced
memcpy(target, source, n) ==
    [i \in 1..Len(target) |-> IF i <= n THEN source[i] ELSE target[i]]

\* memset(target, c, n)
memset(target, c, n) ==
    [i \in 1..Len(target) |-> IF i <= n THEN c ELSE target[i]]

(***************************************************************************)
(* BufferValue structs and the byte storage their buffer pointers name.    *)
(* A struct is laid out as buffer (PtrBytes), written_length (SizeBytes),  *)
(* allocated_length (SizeBytes), least significant byte first.             *)
(***************************************************************************)
NULLPTR == <<"null", 0>>
Torn == <<"torn", 0>>            \* a pointer some of whose bytes were overwritten
CandBuf == <<"cand", 0>>         \* storage of the BufferValue a caller writes from
CellBuf(h) == <<"cell", h>>      \* storage of the caller's BufferValue cell of tag h
CurBuf(h) == <<"cur", h>>        \* storage malloc'd for currentValue of tag h
PrevBuf(h) == <<"prev", h>>      \* storage malloc'd for previousValue of tag h

StructBytes == PtrBytes + 2 * SizeBytes
CallerBufLen == MaxBufCap + 1    \* bytes of every caller-owned byte buffer

BufferValue(b, w, a) == [buffer |-> b, written_length |-> w, allocated_length |-> a]

NullStruct == BufferValue(NULLPTR, -1, -1)   \* stands for a NULL BufferValue*

RECURSIVE Pow256(_)
Pow256(k) == IF k <= 0 THEN 1 ELSE 256 * Pow256(k - 1)

\* a pointer field whose first n bytes are overwritten by those of pointer s;
\* lowSame: the bytes overwritten happen to equal the bytes already there
OverwritePtr(t, s, n, lowSame) ==
    IF n <= 0 THEN t
    ELSE IF n >= PtrBytes THEN s
    ELSE IF t = s \/ lowSame THEN t
    ELSE Torn

\* a size_t field whose first k bytes are overwritten by those of s
OverwriteSize(t, s, k) ==
    IF k <= 0 THEN t
    ELSE IF k >= SizeBytes THEN s
    ELSE (s % Pow256(k)) + (t \div Pow256(k)) * Pow256(k)

\* memcpy(target, source, n) / memset(target, 0, n) applied to the bytes of a
\* BufferValue struct; over counts the bytes written past the end of the struct
StructOverwrite(target, source, n, lowSame) ==
    [st |-> BufferValue(
                OverwritePtr(target.buffer, source.buffer, n, lowSame),
                OverwriteSize(target.written_length, source.written_length, n - PtrBytes),
                OverwriteSize(target.allocated_length, source.allocated_length,
                              n - PtrBytes - SizeBytes)),
     over |-> IF n > StructBytes THEN n - StructBytes ELSE 0]

\* buffer[i] read through pointer p (i counts from 1)
Deref(heap, p, i) ==
    IF p \in DOMAIN heap /\ i <= Len(heap[p]) THEN heap[p][i] ELSE IndetByte

Readable(heap, p, n) == n = 0 \/ (p \in DOMAIN heap /\ n <= Len(heap[p]))

(***************************************************************************)
(* Value copy functions (part_001 lines 654-737).                          *)
(***************************************************************************)
\* fault variant of _copy_string_value: the length is not clamped to
\* buffer_value_max_len
_copy_string_value_Unbounded(reference_str, target_str, buffer_value_max_len) ==
    IF reference_str = <<>> \/ target_str = <<>> \/ buffer_value_max_len < 1
    THEN [ok |-> FALSE, target |-> target_str, over |-> 0]
    ELSE IF reference_str[1] = 0
    THEN [ok |-> TRUE, target |-> target_str, over |-> 0]
    ELSE LET length == strlen(reference_str)
             copied == memcpy(target_str, reference_str, Min(length, Len(target_str)))
         IN  [ok |-> TRUE,
              target |-> IF length + 1 <= Len(target_str)
                         THEN [copied EXCEPT ![length + 1] = 0]
                         ELSE copied,
              over |-> IF length + 1 > Len(target_str)
                       THEN length + 1 - Len(target_str) ELSE 0]

\* fault variant of _copy_string_value: no terminator is placed after the
\* copied bytes
_copy_string_value_NoTerminator(reference_str, target_str, buffer_value_max_len) ==
    IF reference_str = <<>> \/ target_str = <<>> \/ buffer_value_max_len < 1
    THEN [ok |-> FALSE, target |-> target_str, over |-> 0]
    ELSE IF reference_str[1] = 0
    THEN [ok |-> TRUE, target |-> target_str, over |-> 0]
    ELSE LET length == Min(strlen(reference_str), buffer_value_max_len)
         IN  [ok |-> TRUE,
              target |-> memcpy(target_str, reference_str, Min(length, Len(target_str))),
              over |-> IF length > Len(target_str) THEN length - Len(target_str) ELSE 0]

\* _copy_string_value: blocks are byte sequences, <<>> is the NULL pointer
_copy_string_value(reference_str, target_str, buffer_value_max_len) ==
    IF reference_str = <<>> \/ target_str = <<>> \/ buffer_value_max_len < 1
    THEN [ok |-> FALSE, target |-> target_str, over |-> 0]
    ELSE IF reference_str[1] = 0
    THEN [ok |-> TRUE, target |-> target_str, over |-> 0]
    ELSE LET length == Min(strlen(reference_str), buffer_value_max_len)
             copied == memcpy(target_str, reference_str, Min(length, Len(target_str)))
         IN  [ok |-> TRUE,
              target |-> IF length + 1 <= Len(target_str)
                         THEN [copied EXCEPT ![length + 1] = 0]
                         ELSE copied,
              over |-> IF length + 1 > Len(target_str)
                       THEN length + 1 - Len(target_str) ELSE 0]

\* _copy_buffer_value: structs with the heap they point into; a NULL
\* BufferValue* is passed as NullStruct
_copy_buffer_value(reference_buf, target_buf, heap, lowSame) ==
    IF reference_buf = NullStruct \/ target_buf = NullStruct
    THEN [ok |-> FALSE, target |-> target_buf, heap |-> heap, ub |-> FALSE]
    ELSE IF target_buf.allocated_length < 1
    THEN [ok |-> FALSE, target |-> target_buf, heap |-> heap, ub |-> FALSE]
    ELSE IF reference_buf.written_length = 0
    THEN LET p == target_buf.buffer
             n == target_buf.allocated_length
             fits == p \in DOMAIN heap /\ n <= Len(heap[p])
         IN  [ok |-> TRUE,
              target |-> [target_buf EXCEPT !.written_length = 0],
              heap |-> IF p \in DOMAIN heap
                       THEN [heap EXCEPT ![p] = memset(heap[p], 0, Min(n, Len(heap[p])))]
                       ELSE heap,
              ub |-> ~fits]
    ELSE LET length == Min(reference_buf.written_length, target_buf.allocated_length)
             \* memcpy(target_buf, reference_buf, length): the structs themselves
             w == StructOverwrite(target_buf, reference_buf, length, lowSame)
         IN  [ok |-> TRUE,
              target |-> [w.st EXCEPT !.written_length = length],
              heap |-> heap,
              ub |-> w.over > 0]

(***************************************************************************)
(* DefaultCompareFn (part_001 lines 251-298): TRUE when the value changed. *)
(* indet: what a comparison that reads indeterminate memory happens to     *)
(* yield.                                                                  *)
(***************************************************************************)
FloatNe(a, b) == a = "NaN" \/ b = "NaN" \/ a # b

ByteNe(heap, p, q, i, indet) ==
    IF p = q /\ p \in DOMAIN heap /\ i <= Len(heap[p]) THEN FALSE
    ELSE IF Deref(heap, p, i) = IndetByte \/ Deref(heap, q, i) = IndetByte THEN indet
    ELSE Deref(heap, p, i) # Deref(heap, q, i)

\* fault variant of DefaultCompareFn: every comparison reports a change
DefaultCompareFn_AlwaysChanged(currentValue, newValue, heap, indet) == TRUE

DefaultCompareFn(currentValue, newValue, heap, indet) ==
    CASE currentValue.datatype = spInt8 -> currentValue.value # newValue.value
      [] currentValue.datatype = spFloat -> FloatNe(currentValue.value, newValue.value)
      [] currentValue.datatype \in StringTypes ->
            strcmpNe(currentValue.value, newValue.value)
      [] currentValue.datatype = spBytes ->
            IF currentValue.value.written_length # newValue.value.written_length
            THEN TRUE
            ELSE \E i \in 1..currentValue.value.written_length :
                    ByteNe(heap, currentValue.value.buffer, newValue.value.buffer, i, indet)
      [] OTHER -> TRUE

\* whether DefaultCompareFn reads memory it may not
CompareReadsBad(currentValue, newValue, heap) ==
    /\ currentValue.datatype = spBytes
    /\ currentValue.value.written_length = newValue.value.written_length
    /\ \/ ~Readable(heap, currentValue.value.buffer, currentValue.value.written_length)
       \/ ~Readable(heap, newValue.value.buffer, currentValue.value.written_length)

(***************************************************************************)
(* The tag list and the index array (part_001 lines 305-396).              *)
(***************************************************************************)
getTagsCount == _NodeCount

\* the while loop of _update_tags_array: array[count] = current->tag_ptr,
\* count-- (array positions count from 0 in the code, from 1 here)
RECURSIVE FillArray(_, _, _, _)
FillArray(ns, current, count, array) ==
    IF current = NULL THEN array
    ELSE FillArray(ns, ns[current].next_node, count - 1,
                   [array EXCEPT ![count + 1] = ns[current].tag_ptr])

\* the allocations of createTag and deleteTag that can fail: the tag record,
\* the payloads of currentValue and previousValue, the list node, and the
\* malloc / realloc of the index array
AllocationPoints == {"tag", "current", "previous", "node", "array"}

\* fault variant of _update_tags_array: the walk fills the array from its
\* start, in list order
_update_tags_array_ListOrder(hd, ns, cnt, fails) ==
    LET RECURSIVE Fill(_, _, _)
        Fill(current, count, array) ==
            IF current = NULL THEN array
            ELSE Fill(ns[current].next_node, count + 1,
                      [array EXCEPT ![count + 1] = ns[current].tag_ptr])
    IN  IF cnt = 0 \/ "array" \in fails THEN <<>>
        ELSE Fill(hd, 0, [i \in 1..cnt |-> NULL])

\* _update_tags_array: the array after the rebuild; fails: the allocations
\* that fail during the call (a failed malloc / realloc leaves _tags_array
\* NULL, and the function returns false)
_update_tags_array(hd, ns, cnt, fails) ==
    IF cnt = 0 THEN <<>>
    ELSE IF "array" \in fails THEN <<>>
    ELSE FillArray(ns, hd, cnt - 1, [i \in 1..cnt |-> NULL])

\* fault variant of _add_tag_to_list: the count is not raised
_add_tag_to_list_NoCount(tag, fails) ==
    IF "node" \in fails
    THEN UNCHANGED <<nodes, _head, _NodeCount, _tags_array>>
    ELSE /\ nodes' = [n \in DOMAIN nodes \cup {tag} |->
                        IF n = tag THEN [tag_ptr |-> tag, next_node |-> _head]
                        ELSE nodes[n]]
         /\ _head' = tag
         /\ _NodeCount' = _NodeCount
         /\ _tags_array' = _update_tags_array(_head', nodes', _NodeCount', fails)

\* _add_tag_to_list: the node is named after the tag it wraps; when the
\* node cannot be allocated nothing is linked (the function returns NULL)
_add_tag_to_list(tag, fails) ==
    IF "node" \in fails
    THEN UNCHANGED <<nodes, _head, _NodeCount, _tags_array>>
    ELSE /\ nodes' = [n \in DOMAIN nodes \cup {tag} |->
                        IF n = tag THEN [tag_ptr |-> tag, next_node |-> _head]
                        ELSE nodes[n]]
         /\ _head' = tag
         /\ _NodeCount' = _NodeCount + 1
         /\ _tags_array' = _update_tags_array(_head', nodes', _NodeCount', fails)

\* the node before `current` in the list (prev of the scan), NULL for the head
RECURSIVE PrevNode(_, _, _)
PrevNode(ns, n, current) ==
    IF n = NULL THEN NULL
    ELSE IF ns[n].next_node = current THEN n
    ELSE PrevNode(ns, ns[n].next_node, current)

\* the first node from n on whose tag_ptr is tag, NULL if there is none
RECURSIVE FindNode(_, _, _)
FindNode(ns, n, tag) ==
    IF n = NULL THEN NULL
    ELSE IF ns[n].tag_ptr = tag THEN n
    ELSE FindNode(ns, ns[n].next_node, tag)

\* fault variant of _remove_tag_from_list: the index array is not rebuilt
_remove_tag_from_list_NoRebuild(tag, fails) ==
    LET current == FindNode(nodes, _head, tag)
        prev == PrevNode(nodes, _head, current)
        unlinked == IF current = _head THEN nodes
                    ELSE [nodes EXCEPT ![prev].next_node = nodes[current].next_node]
    IN  /\ current # NULL
        /\ _head' = IF current = _head THEN nodes[current].next_node ELSE _head
        /\ nodes' = [n \in DOMAIN nodes \ {current} |-> unlinked[n]]
        /\ _NodeCount' = _NodeCount - 1
        /\ _tags_array' = _tags_array

\* _remove_tag_from_list, for a tag the scan finds (for any other, the scan
\* reaches the end of the list and the function returns false)
_remove_tag_from_list(tag, fails) ==
    LET current == FindNode(nodes, _head, tag)
        prev == PrevNode(nodes, _head, current)
        unlinked == IF current = _head THEN nodes
                    ELSE [nodes EXCEPT ![prev].next_node = nodes[current].next_node]
    IN  /\ current # NULL
        /\ _head' = IF current = _head THEN nodes[current].next_node ELSE _head
        /\ nodes' = [n \in DOMAIN nodes \ {current} |-> unlinked[n]]
        /\ _NodeCount' = _NodeCount - 1
        /\ _tags_array' = _update_tags_array(_head', nodes', _NodeCount', fails)

(***************************************************************************)
(* Lookups (part_001 lines 915-969).                                       *)
(***************************************************************************)
\* the matcher functions findTag is given: _tag_has_alias, _tag_has_name
Matches(matcherFn, tag, arg) ==
    CASE matcherFn = "_tag_has_alias" -> tags[tag].alias = arg
      [] matcherFn = "_tag_has_name" -> tags[tag].name = arg

\* fault variant of FindFrom: only the node the scan starts at is looked at
FindFrom_FirstOnly(current, matcherFn, arg) ==
    IF current = NULL THEN NULL
    ELSE IF Matches(matcherFn, nodes[current].tag_ptr, arg) THEN nodes[current].tag_ptr
    ELSE NULL

\* fault variant of FindFrom: the scan goes on to the end of the list and
\* returns the last tag that matches
RECURSIVE FindFrom_LastMatch(_, _, _)
FindFrom_LastMatch(current, matcherFn, arg) ==
    IF current = NULL THEN NULL
    ELSE LET later == FindFrom_LastMatch(nodes[current].next_node, matcherFn, arg)
         IN  IF later # NULL THEN later
             ELSE IF Matches(matcherFn, nodes[current].tag_ptr, arg)
             THEN nodes[current].tag_ptr
             ELSE NULL

\* the while loop of findTag
RECURSIVE FindFrom(_, _, _)
FindFrom(current, matcherFn, arg) ==
    IF current = NULL THEN NULL
    ELSE IF Matches(matcherFn, nodes[current].tag_ptr, arg) THEN nodes[current].tag_ptr
    ELSE FindFrom(nodes[current].next_node, matcherFn, arg)

findTag(matcherFn, arg) == IF _head = NULL THEN NULL ELSE FindFrom(_head, matcherFn, arg)

\* fault variant of aliasValid: an alias is free only in an empty registry
aliasValid_EmptyOnly(alias) == _head = NULL

aliasValid(alias) == findTag("_tag_has_alias", alias) = NULL

RECURSIVE MaxAliasFrom(_, _)
MaxAliasFrom(current, max) ==
    IF current = NULL THEN max
    ELSE MaxAliasFrom(nodes[current].next_node,
                      IF tags[nodes[current].tag_ptr].alias > max
                      THEN tags[nodes[current].tag_ptr].alias ELSE max)

\* the int range of the aliases
IntMax == 2147483647
IntMin == -IntMax - 1

\* n + 1 in int arithmetic: at the largest int the addition overflows, which
\* wraps to the smallest int on the builds where it does not trap
IntSucc(n) == IF n = IntMax THEN IntMin ELSE n + 1

getNextAlias == IF _head = NULL THEN 1 ELSE IntSucc(MaxAliasFrom(_head, 0))

\* the max + 1 of getNextAlias overflows when createTag is asked for alias
AliasOverflows(alias) ==
    ~aliasValid(alias) /\ _head # NULL /\ MaxAliasFrom(_head, 0) = IntMax

getTagByName(name) == findTag("_tag_has_name", name)

getTagByAlias(alias) == findTag("_tag_has_alias", alias)

\* what a read through a NULL _tags_array yields: no tag
IndetTag == -1

\* idx counts from 0, as in the code
getTagByIdx(idx) ==
    IF idx < _NodeCount
    THEN (IF idx + 1 \in DOMAIN _tags_array THEN _tags_array[idx + 1] ELSE IndetTag)
    ELSE NULL

(***************************************************************************)
(* The record of the last API call.                                        *)
(***************************************************************************)
\* after: for a readBasicTag, what the call before it was: a write to the same
\* tag that succeeded ("written"), a read of the same tag ("read"), or "other".
\* For a createTag, whether the call before it was a deleteTag that succeeded
\* on a tag holding the alias now requested ("deleted").
\* first: the call is the first readBasicTag of the tag since it was created.
\* arg: the arguments of the call (for deleteTag, with the tag's position idx,
\* its alias and the tag count, all as they were before the call).
\* reads: the readBasicTag calls made during the call, in order, each with its
\* tag, timestamp and result.  cb: the invocations of change callbacks during
\* the call, in order, each with what the callback found in the tag it was given.
\* seq flips when the call changes nothing else, so that every call is a step.
DidLog(op, tag, arg, ret, reads, cb) ==
    LET after == IF op = "createTag"
                 THEN (IF last.op = "deleteTag" /\ last.ret = TRUE /\ last.arg.alias = arg.alias
                       THEN "deleted" ELSE "-")
                 ELSE IF op # "readBasicTag" THEN "-"
                 ELSE IF last.tag = tag /\ last.op = "writeBasicTag" /\ last.ret = TRUE
                 THEN "written"
                 ELSE IF last.tag = tag /\ last.op = "readBasicTag" THEN "read"
                 ELSE "other"
        repeat == /\ last.op = op /\ last.tag = tag /\ last.arg = arg
                  /\ last.ret = ret /\ last.after = after
                  /\ last.reads = reads /\ last.cb = cb
                  /\ UNCHANGED <<_head, nodes, _NodeCount, _tags_array, tags, mem,
                                 bufs, ub, _timestamp_function, everRead>>
    IN  last' = [op |-> op, tag |-> tag, arg |-> arg, ret |-> ret, after |-> after,
                 first |-> (op = "readBasicTag" /\ tag \notin everRead),
                 reads |-> reads, cb |-> cb,
                 seq |-> IF repeat THEN 1 - last.seq ELSE 0]

Did(op, tag, arg, ret) == DidLog(op, tag, arg, ret, <<>>, <<>>)

(***************************************************************************)
(* Tag creation and deletion (part_001 lines 404-646).                     *)
(***************************************************************************)
BasicValue(timestamp, datatype, value, isNull) ==
    [timestamp |-> timestamp, datatype |-> datatype, value |-> value, isNull |-> isNull]

\* _init_string_value on an empty slot: the block malloc'd and zero-filled
_init_string_value(max_str_length) ==
    IF max_str_length < 1 THEN <<>> ELSE Zeros(max_str_length + 1)

\* _init_buffer_value on an empty slot: the BufferValue malloc'd, pointing at
\* storage named buf
_init_buffer_value(buf, buffer_size) ==
    IF buffer_size < 1 THEN BufferValue(NULLPTR, 0, 0)
    ELSE BufferValue(buf, 0, buffer_size)

\* the value union of currentValue / previousValue after
\* _init_functional_basic_tag; fixed-width members are left as malloc gave
\* them; failed: the allocation of the payload fails, which leaves the
\* pointer NULL (the result of _init_string_value / _init_buffer_value is
\* not looked at)
InitValue(datatype, buffer_value_max_len, buf, failed) ==
    CASE datatype = spInt8 -> IndetInt8
      [] datatype = spFloat -> IndetFloat
      [] datatype = spUUID -> IF failed THEN <<>> ELSE _init_string_value(UUIDLen)
      [] datatype = spString ->
            IF failed THEN <<>> ELSE _init_string_value(buffer_value_max_len)
      [] datatype = spBytes ->
            IF failed THEN NullStruct ELSE _init_buffer_value(buf, buffer_value_max_len)

\* the alias _init_functional_basic_tag gives the tag
AssignedAlias(alias) == IF ~aliasValid(alias) THEN getNextAlias ELSE alias

_init_functional_basic_tag(tag, name, value_address, alias, datatype, local_writable, remote_writable, buffer_value_max_len, fails) ==
    [name |-> name,
     value_address |-> value_address,
     alias |-> AssignedAlias(alias),
     datatype |-> datatype,
     local_writable |-> local_writable,
     remote_writable |-> remote_writable,
     buffer_value_max_len |-> buffer_value_max_len,
     compareFunc |-> "DefaultCompareFn",
     valueChanged |-> FALSE,
     lastRead |-> 0,
     onChange |-> NullFn,
     validateWrite |-> NullFn,
     currentValue |-> BasicValue(0, datatype,
                        InitValue(datatype, buffer_value_max_len, CurBuf(tag),
                                  "current" \in fails), TRUE),
     previousValue |-> BasicValue(0, datatype,
                        InitValue(datatype, buffer_value_max_len, PrevBuf(tag),
                                  "previous" \in fails), TRUE)]

\* the byte storage a new byte-buffer tag mallocs (never initialised)
TagBufs(tag, datatype, buffer_value_max_len, fails) ==
    IF datatype = spBytes /\ buffer_value_max_len >= 1
    THEN (IF "current" \in fails THEN {} ELSE {CurBuf(tag)})
         \cup (IF "previous" \in fails THEN {} ELSE {PrevBuf(tag)})
    ELSE {}

\* the block malloc returns for a new tag: blocks are interchangeable, so the
\* free block with the lowest number stands for whichever one malloc picks
NewHandle == CHOOSE h \in Handles \ DOMAIN tags : \A g \in Handles \ DOMAIN tags : h <= g

\* createTag.  hasAddress: value_address is not NULL; cell: what the caller's
\* memory cell holds when the tag is created; cellBytes: for a byte-buffer
\* tag, the content of the storage the caller's BufferValue points at;
\* fails: the allocations that fail during the call.  The call returns NULL
\* only when the tag record itself cannot be allocated.
createTag(name, hasAddress, alias, datatype, local_writable, remote_writable, buffer_value_max_len, cell, cellBytes, fails) ==
    IF "tag" \in fails
    THEN /\ UNCHANGED <<_head, nodes, _NodeCount, _tags_array, tags, mem, bufs, ub, _timestamp_function, everRead>>
         /\ Did("createTag", NULL, [alias |-> alias, datatype |-> datatype, fails |-> fails], FALSE)
    ELSE
    /\ Handles \ DOMAIN tags # {}
    /\  LET newTag == NewHandle
            rec == _init_functional_basic_tag(newTag, name,
                        IF hasAddress THEN newTag ELSE NULL, alias, datatype,
                        local_writable, remote_writable, buffer_value_max_len, fails)
            own == TagBufs(newTag, datatype, buffer_value_max_len, fails)
            caller == IF datatype = spBytes /\ hasAddress THEN {CellBuf(newTag)} ELSE {}
        IN  /\ tags' = [t \in DOMAIN tags \cup {newTag} |->
                            IF t = newTag THEN rec ELSE tags[t]]
            /\ mem' = [t \in DOMAIN mem \cup {newTag} |->
                            IF t = newTag THEN cell ELSE mem[t]]
            /\ bufs' = [b \in DOMAIN bufs \cup own \cup caller |->
                            IF b \in own THEN [i \in 1..buffer_value_max_len |-> IndetByte]
                            ELSE IF b \in caller THEN cellBytes
                            ELSE bufs[b]]
            /\ _add_tag_to_list(newTag, fails)
            /\ ub' = (ub \/ AliasOverflows(alias))
            /\ UNCHANGED <<_timestamp_function, everRead>>
            /\ Did("createTag", newTag, [alias |-> alias, datatype |-> datatype, fails |-> fails], TRUE)

\* a createTag whose getNextAlias overflows on a build that traps signed
\* overflow: the call does not return
createTagTraps(alias, datatype) ==
    /\ AliasOverflows(alias)
    /\ ub' = TRUE
    /\ UNCHANGED <<_head, nodes, _NodeCount, _tags_array, tags, mem, bufs, _timestamp_function, everRead>>
    /\ Did("createTag", NULL, [alias |-> alias, datatype |-> datatype, fails |-> {}], FALSE)

\* the position getTagByIdx knows a tag by, -1 for a tag the array does not hold
IndexOf(tag) ==
    IF \E i \in DOMAIN _tags_array : _tags_array[i] = tag
    THEN (CHOOSE i \in DOMAIN _tags_array : _tags_array[i] = tag) - 1
    ELSE -1

\* the buffer pointers _deallocate_functional_basic_tag passes to free
FreedBufs(tag) ==
    IF tags[tag].datatype = spBytes
    THEN <<tags[tag].currentValue.value.buffer, tags[tag].previousValue.value.buffer>>
    ELSE <<NULLPTR, NULLPTR>>

\* free(p) is defined for NULL and for storage the tags malloc'd
FreeOk(p) == p = NULLPTR \/ (p \in DOMAIN bufs /\ p[1] \in {"cur", "prev"})

\* fault variant of deleteTag: the count is lowered also when the scan does
\* not find the tag
deleteTag_CountsAbsent(tag, fails) ==
    IF tag \notin DOMAIN tags
    THEN /\ ub' = TRUE
         /\ UNCHANGED <<_head, nodes, _NodeCount, _tags_array, tags, mem, bufs, _timestamp_function, everRead>>
         /\ Did("deleteTag", tag, [tag |-> tag, idx |-> IndexOf(tag), alias |-> 0, count |-> _NodeCount], FALSE)
    ELSE
    LET f == FreedBufs(tag)
        gone == {f[1], f[2], CellBuf(tag)}
        found == FindNode(nodes, _head, tag) # NULL
    IN  /\ tags' = [t \in DOMAIN tags \ {tag} |-> tags[t]]
        /\ mem' = [t \in DOMAIN mem \ {tag} |-> mem[t]]
        /\ bufs' = [b \in DOMAIN bufs \ gone |-> bufs[b]]
        /\ ub' = (ub \/ ~FreeOk(f[1]) \/ ~FreeOk(f[2]) \/ (f[1] = f[2] /\ f[1] # NULLPTR))
        /\ everRead' = everRead \ {tag}
        /\ UNCHANGED _timestamp_function
        /\ IF found THEN _remove_tag_from_list(tag, fails)
           ELSE /\ _NodeCount' = IF _NodeCount > 0 THEN _NodeCount - 1 ELSE 0
                /\ UNCHANGED <<_head, nodes, _tags_array>>
        /\ Did("deleteTag", tag, [tag |-> tag, idx |-> IndexOf(tag), alias |-> tags[tag].alias, count |-> _NodeCount], found)

\* deleteTag(tag): releases the tag's storage, then scans the list for the tag
\* and unlinks it.  fails: the allocations that fail during the call.  A
\* handle that names no live tag record (NULL, a tag already deleted) is read
\* and freed all the same: undefined behaviour, after which the scan finds
\* nothing.
deleteTag(tag, fails) ==
    IF tag \notin DOMAIN tags
    THEN /\ ub' = TRUE
         /\ UNCHANGED <<_head, nodes, _NodeCount, _tags_array, tags, mem, bufs, _timestamp_function, everRead>>
         /\ Did("deleteTag", tag, [tag |-> tag, idx |-> IndexOf(tag), alias |-> 0, count |-> _NodeCount], FALSE)
    ELSE
    LET f == FreedBufs(tag)
        gone == {f[1], f[2], CellBuf(tag)}
        found == FindNode(nodes, _head, tag) # NULL
    IN  /\ tags' = [t \in DOMAIN tags \ {tag} |-> tags[t]]
        /\ mem' = [t \in DOMAIN mem \ {tag} |-> mem[t]]
        /\ bufs' = [b \in DOMAIN bufs \ gone |-> bufs[b]]
        /\ ub' = (ub \/ ~FreeOk(f[1]) \/ ~FreeOk(f[2]) \/ (f[1] = f[2] /\ f[1] # NULLPTR))
        /\ everRead' = everRead \ {tag}
        /\ UNCHANGED _timestamp_function
        /\ IF found THEN _remove_tag_from_list(tag, fails)
           ELSE UNCHANGED <<_head, nodes, _NodeCount, _tags_array>>
        /\ Did("deleteTag", tag, [tag |-> tag, idx |-> IndexOf(tag), alias |-> tags[tag].alias, count |-> _NodeCount], found)

(***************************************************************************)
(* iterTags (part_001 lines 389-396).                                      *)
(***************************************************************************)
\* the actions a caller passes to iterTags: "visit" looks at the tag it is
\* given, "deleteGiven" calls deleteTag on it
TagFunctions == {"visit", "deleteGiven"}

\* fault variant of IterFrom: the traversal ends after the first node
IterFrom_StopsAfterFirst(ns, current) ==
    IF current = NULL THEN <<>> ELSE <<ns[current].tag_ptr>>

\* the tags the while loop hands to the action, from node current on
RECURSIVE IterFrom(_, _)
IterFrom(ns, current) ==
    IF current = NULL THEN <<>>
    ELSE <<ns[current].tag_ptr>> \o IterFrom(ns, ns[current].next_node)

\* the node k links after node current
RECURSIVE AfterNodes(_, _, _)
AfterNodes(ns, current, k) ==
    IF k = 0 \/ current = NULL THEN current
    ELSE AfterNodes(ns, ns[current].next_node, k - 1)

\* the tags handed to an action that deletes the tag it is given: the loop
\* reads current->next_node from the node the action has just freed; stale:
\* the freed node still holds its link, so the traversal goes on to the next
\* node (otherwise it ends there)
IterDeleting(stale) ==
    IF _head = NULL THEN <<>>
    ELSE IF stale THEN IterFrom(nodes, _head)
    ELSE <<nodes[_head].tag_ptr>>

\* fault variant of IterResult: the loop reads current->next_node before it
\* calls the action, so no freed node is read
IterResult_LinkReadFirst(tagFn, visited) ==
    LET gone == IF tagFn = "deleteGiven" THEN {visited[i] : i \in DOMAIN visited} ELSE {}
        freed == UNION {{FreedBufs(t)[1], FreedBufs(t)[2], CellBuf(t)} : t \in gone}
    IN  /\ _head' = IF gone = {} THEN _head ELSE AfterNodes(nodes, _head, Len(visited))
        /\ nodes' = [n \in DOMAIN nodes \ gone |-> nodes[n]]
        /\ _NodeCount' = _NodeCount - Cardinality(gone)
        /\ _tags_array' = IF gone = {} THEN _tags_array
                          ELSE _update_tags_array(_head', nodes', _NodeCount', {})
        /\ tags' = [t \in DOMAIN tags \ gone |-> tags[t]]
        /\ mem' = [t \in DOMAIN mem \ gone |-> mem[t]]
        /\ bufs' = [b \in DOMAIN bufs \ freed |-> bufs[b]]
        /\ everRead' = everRead \ gone
        /\ ub' = ub
        /\ UNCHANGED _timestamp_function
        /\ Did("iterTags", NULL, [tagFn |-> tagFn, visited |-> visited], TRUE)

\* the registry after iterTags(tagFn) has handed the tags of `visited` to
\* the action
IterResult(tagFn, visited) ==
    LET gone == IF tagFn = "deleteGiven" THEN {visited[i] : i \in DOMAIN visited} ELSE {}
        freed == UNION {{FreedBufs(t)[1], FreedBufs(t)[2], CellBuf(t)} : t \in gone}
    IN  /\ _head' = IF gone = {} THEN _head ELSE AfterNodes(nodes, _head, Len(visited))
        /\ nodes' = [n \in DOMAIN nodes \ gone |-> nodes[n]]
        /\ _NodeCount' = _NodeCount - Cardinality(gone)
        /\ _tags_array' = IF gone = {} THEN _tags_array
                          ELSE _update_tags_array(_head', nodes', _NodeCount', {})
        /\ tags' = [t \in DOMAIN tags \ gone |-> tags[t]]
        /\ mem' = [t \in DOMAIN mem \ gone |-> mem[t]]
        /\ bufs' = [b \in DOMAIN bufs \ freed |-> bufs[b]]
        /\ everRead' = everRead \ gone
        /\ ub' = (ub \/ gone # {})
        /\ UNCHANGED _timestamp_function
        /\ Did("iterTags", NULL, [tagFn |-> tagFn, visited |-> visited], TRUE)

\* iterTags(tagFn)
iterTags(tagFn, stale) ==
    IterResult(tagFn, IF tagFn = "deleteGiven" THEN IterDeleting(stale)
                      ELSE IterFrom(nodes, _head))

(***************************************************************************)
(* The read / write engine (part_001 lines 696-899).                       *)
(***************************************************************************)
\* fault variant of _copyBasicValue: timestamp, datatype and isNull are copied,
\* the value is not
_copyBasicValue_HeaderOnly(reference, target, buffer_value_max_len, heap, lowSame) ==
    [bv |-> [target EXCEPT !.timestamp = reference.timestamp,
                           !.datatype = reference.datatype,
                           !.isNull = reference.isNull],
     heap |-> heap, ub |-> FALSE]

\* fault variant of _copyBasicValue: the timestamp is not copied
_copyBasicValue_NoTimestamp(reference, target, buffer_value_max_len, heap, lowSame) ==
    LET head == [target EXCEPT !.datatype = reference.datatype,
                               !.isNull = reference.isNull]
    IN  IF reference.isNull THEN [bv |-> head, heap |-> heap, ub |-> FALSE]
        ELSE CASE reference.datatype \in FixedTypes ->
                    [bv |-> [head EXCEPT !.value = reference.value],
                     heap |-> heap, ub |-> FALSE]
               [] reference.datatype \in StringTypes ->
                    LET r == _copy_string_value(reference.value, target.value,
                                                buffer_value_max_len)
                    IN  [bv |-> [head EXCEPT !.value = r.target],
                         heap |-> heap, ub |-> r.over > 0]
               [] reference.datatype = spBytes ->
                    LET r == _copy_buffer_value(reference.value, target.value,
                                                heap, lowSame)
                    IN  [bv |-> [head EXCEPT !.value = r.target],
                         heap |-> r.heap, ub |-> r.ub]
               [] OTHER -> [bv |-> [head EXCEPT !.isNull = TRUE],
                            heap |-> heap, ub |-> FALSE]

\* _copyBasicValue(reference, target, buffer_value_max_len): the target
\* afterwards, with the heap and whether a copy ran past its destination
_copyBasicValue(reference, target, buffer_value_max_len, heap, lowSame) ==
    LET head == [target EXCEPT !.timestamp = reference.timestamp,
                               !.datatype = reference.datatype,
                               !.isNull = reference.isNull]
    IN  IF reference.isNull THEN [bv |-> head, heap |-> heap, ub |-> FALSE]
        ELSE CASE reference.datatype \in FixedTypes ->
                    [bv |-> [head EXCEPT !.value = reference.value],
                     heap |-> heap, ub |-> FALSE]
               [] reference.datatype \in StringTypes ->
                    LET r == _copy_string_value(reference.value, target.value,
                                                buffer_value_max_len)
                    IN  [bv |-> [head EXCEPT !.value = r.target],
                         heap |-> heap, ub |-> r.over > 0]
               [] reference.datatype = spBytes ->
                    LET r == _copy_buffer_value(reference.value, target.value,
                                                heap, lowSame)
                    IN  [bv |-> [head EXCEPT !.value = r.target],
                         heap |-> r.heap, ub |-> r.ub]
               [] OTHER -> [bv |-> [head EXCEPT !.isNull = TRUE],
                            heap |-> heap, ub |-> FALSE]

\* fault variant of ReadCandidate: the candidate is not given the tag's datatype
ReadCandidate_Untyped(tag, timestamp) ==
    LET t == tags[tag]
        isNull == /\ t.datatype \in StringTypes
                  /\ (t.buffer_value_max_len < 1 \/ strlen(mem[tag]) = 0)
    IN  BasicValue(timestamp, 0, IF isNull THEN <<>> ELSE mem[tag], isNull)

\* fault variant of ReadCandidate: a string candidate is null only when the
\* live string is empty, whatever the capacity
ReadCandidate_IgnoresCapacity(tag, timestamp) ==
    LET t == tags[tag]
        isNull == t.datatype \in StringTypes /\ strlen(mem[tag]) = 0
    IN  BasicValue(timestamp, t.datatype, IF isNull THEN <<>> ELSE mem[tag], isNull)

\* the candidate readBasicTag marshals from the caller's memory cell
ReadCandidate(tag, timestamp) ==
    LET t == tags[tag]
        isNull == /\ t.datatype \in StringTypes
                  /\ (t.buffer_value_max_len < 1 \/ strlen(mem[tag]) = 0)
    IN  BasicValue(timestamp, t.datatype, IF isNull THEN <<>> ELSE mem[tag], isNull)

\* fault variant of ValueChanged: the first read is not forced to "changed"
ValueChanged_NoFirstRead(t, newValue, heap, indet) ==
    IF t.currentValue.isNull \/ newValue.isNull
    THEN t.currentValue.isNull # newValue.isNull
    ELSE IF t.compareFunc # NullFn
    THEN DefaultCompareFn(t.currentValue, newValue, heap, indet)
    ELSE TRUE

\* fault variant of ValueChanged: a null current value or candidate always
\* counts as a change
ValueChanged_NullIsChange(t, newValue, heap, indet) ==
    IF t.currentValue.timestamp = 0 THEN TRUE
    ELSE IF t.currentValue.isNull \/ newValue.isNull THEN TRUE
    ELSE IF t.compareFunc # NullFn
    THEN DefaultCompareFn(t.currentValue, newValue, heap, indet)
    ELSE TRUE

\* the valueChanged readBasicTag computes (lines 808-818)
ValueChanged(t, newValue, heap, indet) ==
    IF t.currentValue.timestamp = 0 THEN TRUE
    ELSE IF t.currentValue.isNull \/ newValue.isNull
    THEN t.currentValue.isNull # newValue.isNull
    ELSE IF t.compareFunc # NullFn
    THEN DefaultCompareFn(t.currentValue, newValue, heap, indet)
    ELSE TRUE

\* what a change callback finds in the tag it is given
Observed(tag, t) ==
    [tag |-> tag, currentValue |-> t.currentValue, previousValue |-> t.previousValue,
     valueChanged |-> t.valueChanged, lastRead |-> t.lastRead]

\* fault variant of ReadResult: a read that finds the value unchanged still
\* stamps currentValue with the read's timestamp
ReadResult_StampsUnchanged(tag, t, timestamp, heap, indet, lowSame1, lowSame2) ==
    LET newValue == ReadCandidate(tag, timestamp)
        valueChanged == ValueChanged(t, newValue, heap, indet)
        compared == /\ t.currentValue.timestamp # 0
                    /\ ~t.currentValue.isNull /\ ~newValue.isNull
        badRead == compared /\ CompareReadsBad(t.currentValue, newValue, heap)
        c1 == _copyBasicValue(t.currentValue, t.previousValue,
                              t.buffer_value_max_len, heap, lowSame1)
        c2 == _copyBasicValue(newValue, t.currentValue,
                              t.buffer_value_max_len, c1.heap, lowSame2)
        stamped == [t EXCEPT !.lastRead = timestamp]
        updated == [stamped EXCEPT !.valueChanged = TRUE,
                                   !.previousValue = c1.bv,
                                   !.currentValue = c2.bv]
    IN  IF t.value_address = NULL
        THEN [t |-> stamped, heap |-> heap, ub |-> FALSE, ret |-> TRUE, cb |-> <<>>]
        ELSE IF ~valueChanged
        THEN [t |-> [stamped EXCEPT !.valueChanged = FALSE,
                                    !.currentValue.timestamp = timestamp],
              heap |-> heap, ub |-> badRead, ret |-> FALSE, cb |-> <<>>]
        ELSE [t |-> updated, heap |-> c2.heap, ub |-> c1.ub \/ c2.ub \/ badRead,
              ret |-> TRUE,
              cb |-> IF t.onChange # NullFn THEN <<Observed(tag, updated)>> ELSE <<>>]

\* fault variant of ReadResult: the change callback is invoked before the
\* values are updated
ReadResult_CallbackFirst(tag, t, timestamp, heap, indet, lowSame1, lowSame2) ==
    LET newValue == ReadCandidate(tag, timestamp)
        valueChanged == ValueChanged(t, newValue, heap, indet)
        compared == /\ t.currentValue.timestamp # 0
                    /\ ~t.currentValue.isNull /\ ~newValue.isNull
        badRead == compared /\ CompareReadsBad(t.currentValue, newValue, heap)
        c1 == _copyBasicValue(t.currentValue, t.previousValue,
                              t.buffer_value_max_len, heap, lowSame1)
        c2 == _copyBasicValue(newValue, t.currentValue,
                              t.buffer_value_max_len, c1.heap, lowSame2)
        stamped == [t EXCEPT !.lastRead = timestamp]
        updated == [stamped EXCEPT !.valueChanged = TRUE,
                                   !.previousValue = c1.bv,
                                   !.currentValue = c2.bv]
    IN  IF t.value_address = NULL
        THEN [t |-> stamped, heap |-> heap, ub |-> FALSE, ret |-> TRUE, cb |-> <<>>]
        ELSE IF ~valueChanged
        THEN [t |-> [stamped EXCEPT !.valueChanged = FALSE],
              heap |-> heap, ub |-> badRead, ret |-> FALSE, cb |-> <<>>]
        ELSE [t |-> updated, heap |-> c2.heap, ub |-> c1.ub \/ c2.ub \/ badRead,
              ret |-> TRUE,
              cb |-> IF t.onChange # NullFn
                     THEN <<Observed(tag, [stamped EXCEPT !.valueChanged = TRUE])>>
                     ELSE <<>>]

\* fault variant of ReadResult: the read of a tag without value_address
\* records a null current value and invokes the change callback
ReadResult_AbsentIsChange(tag, t, timestamp, heap, indet, lowSame1, lowSame2) ==
    LET newValue == ReadCandidate(tag, timestamp)
        valueChanged == ValueChanged(t, newValue, heap, indet)
        compared == /\ t.currentValue.timestamp # 0
                    /\ ~t.currentValue.isNull /\ ~newValue.isNull
        badRead == compared /\ CompareReadsBad(t.currentValue, newValue, heap)
        c1 == _copyBasicValue(t.currentValue, t.previousValue,
                              t.buffer_value_max_len, heap, lowSame1)
        c2 == _copyBasicValue(newValue, t.currentValue,
                              t.buffer_value_max_len, c1.heap, lowSame2)
        stamped == [t EXCEPT !.lastRead = timestamp]
        updated == [stamped EXCEPT !.valueChanged = TRUE,
                                   !.previousValue = c1.bv,
                                   !.currentValue = c2.bv]
        absent == [stamped EXCEPT !.currentValue.timestamp = timestamp]
    IN  IF t.value_address = NULL
        THEN [t |-> absent, heap |-> heap, ub |-> FALSE, ret |-> TRUE,
              cb |-> IF t.onChange # NullFn THEN <<Observed(tag, absent)>> ELSE <<>>]
        ELSE IF ~valueChanged
        THEN [t |-> [stamped EXCEPT !.valueChanged = FALSE],
              heap |-> heap, ub |-> badRead, ret |-> FALSE, cb |-> <<>>]
        ELSE [t |-> updated, heap |-> c2.heap, ub |-> c1.ub \/ c2.ub \/ badRead,
              ret |-> TRUE,
              cb |-> IF t.onChange # NullFn THEN <<Observed(tag, updated)>> ELSE <<>>]

\* fault variant of ReadResult: lastRead is recorded only by a read that
\* finds a change
ReadResult_LastReadOnChange(tag, t, timestamp, heap, indet, lowSame1, lowSame2) ==
    LET newValue == ReadCandidate(tag, timestamp)
        valueChanged == ValueChanged(t, newValue, heap, indet)
        compared == /\ t.currentValue.timestamp # 0
                    /\ ~t.currentValue.isNull /\ ~newValue.isNull
        badRead == compared /\ CompareReadsBad(t.currentValue, newValue, heap)
        c1 == _copyBasicValue(t.currentValue, t.previousValue,
                              t.buffer_value_max_len, heap, lowSame1)
        c2 == _copyBasicValue(newValue, t.currentValue,
                              t.buffer_value_max_len, c1.heap, lowSame2)
        stamped == [t EXCEPT !.lastRead = timestamp]
        updated == [stamped EXCEPT !.valueChanged = TRUE,
                                   !.previousValue = c1.bv,
                                   !.currentValue = c2.bv]
    IN  IF t.value_address = NULL
        THEN [t |-> t, heap |-> heap, ub |-> FALSE, ret |-> TRUE, cb |-> <<>>]
        ELSE IF ~valueChanged
        THEN [t |-> [t EXCEPT !.valueChanged = FALSE],
              heap |-> heap, ub |-> badRead, ret |-> FALSE, cb |-> <<>>]
        ELSE [t |-> updated, heap |-> c2.heap, ub |-> c1.ub \/ c2.ub \/ badRead,
              ret |-> TRUE,
              cb |-> IF t.onChange # NullFn THEN <<Observed(tag, updated)>> ELSE <<>>]

\* the body of readBasicTag(tag, timestamp) for a live tag whose record is t:
\* the record and the heap afterwards, whether the call read or wrote memory
\* it may not, its result, and the change callbacks it invoked.  indet: the
\* outcome of a comparison that reads indeterminate bytes; lowSame1,
\* lowSame2: whether the low bytes of two distinct pointers coincide, for
\* each of the two copies
ReadResult(tag, t, timestamp, heap, indet, lowSame1, lowSame2) ==
    LET newValue == ReadCandidate(tag, timestamp)
        valueChanged == ValueChanged(t, newValue, heap, indet)
        compared == /\ t.currentValue.timestamp # 0
                    /\ ~t.currentValue.isNull /\ ~newValue.isNull
        badRead == compared /\ CompareReadsBad(t.currentValue, newValue, heap)
        c1 == _copyBasicValue(t.currentValue, t.previousValue,
                              t.buffer_value_max_len, heap, lowSame1)
        c2 == _copyBasicValue(newValue, t.currentValue,
                              t.buffer_value_max_len, c1.heap, lowSame2)
        stamped == [t EXCEPT !.lastRead = timestamp]
        updated == [stamped EXCEPT !.valueChanged = TRUE,
                                   !.previousValue = c1.bv,
                                   !.currentValue = c2.bv]
    IN  IF t.value_address = NULL
        THEN [t |-> stamped, heap |-> heap, ub |-> FALSE, ret |-> TRUE, cb |-> <<>>]
        ELSE IF ~valueChanged
        THEN [t |-> [stamped EXCEPT !.valueChanged = FALSE],
              heap |-> heap, ub |-> badRead, ret |-> FALSE, cb |-> <<>>]
        ELSE [t |-> updated, heap |-> c2.heap, ub |-> c1.ub \/ c2.ub \/ badRead,
              ret |-> TRUE,
              cb |-> IF t.onChange # NullFn THEN <<Observed(tag, updated)>> ELSE <<>>]

\* readBasicTag(tag, timestamp) on a live tag
readBasicTag(tag, timestamp, indet, lowSame1, lowSame2) ==
    LET r == ReadResult(tag, tags[tag], timestamp, bufs, indet, lowSame1, lowSame2)
    IN  /\ tag \in DOMAIN tags
        /\ tags' = [tags EXCEPT ![tag] = r.t]
        /\ bufs' = r.heap
        /\ ub' = (ub \/ r.ub)
        /\ everRead' = everRead \cup {tag}
        /\ UNCHANGED <<_head, nodes, _NodeCount, _tags_array, mem, _timestamp_function>>
        /\ DidLog("readBasicTag", tag, [timestamp |-> timestamp], r.ret,
                  <<[tag |-> tag, timestamp |-> timestamp, ret |-> r.ret]>>, r.cb)

\* the write-validation callbacks a caller registers
Validators == {"rejectAll", "rejectNull"}

Validate(validateWrite, newValue) ==
    CASE validateWrite = "rejectAll" -> FALSE
      [] validateWrite = "rejectNull" -> ~newValue.isNull

\* fault variant of WriteAllowed: the writability flags are not checked
WriteAllowed_IgnoresFlags(t, newValue) ==
    /\ t.value_address # NULL
    /\ (t.validateWrite = NullFn \/ Validate(t.validateWrite, newValue))

\* fault variant of WriteAllowed: the validation callback is not consulted
WriteAllowed_IgnoresCallback(t, newValue) ==
    /\ t.value_address # NULL
    /\ (t.local_writable \/ t.remote_writable)

\* the preconditions of writeBasicTag (lines 833-836)
WriteAllowed(t, newValue) ==
    /\ t.value_address # NULL
    /\ (t.local_writable \/ t.remote_writable)
    /\ (t.validateWrite = NullFn \/ Validate(t.validateWrite, newValue))

\* the caller's memory cell after the type-dispatched copy of writeBasicTag
\* (lines 838-896), with the bytes written past the cell
WriteCell(t, cell, newValue, heap, lowSame) ==
    CASE t.datatype \in FixedTypes -> [cell |-> newValue.value, over |-> 0]
      [] t.datatype \in StringTypes ->
            IF newValue.isNull \/ newValue.value = <<>> \/ newValue.value[1] = 0
            THEN [cell |-> memset(cell, 0, Min(t.buffer_value_max_len, Len(cell))),
                  over |-> IF t.buffer_value_max_len > Len(cell)
                           THEN t.buffer_value_max_len - Len(cell) ELSE 0]
            ELSE LET r == _copy_string_value(newValue.value, cell, t.buffer_value_max_len)
                 IN  [cell |-> r.target, over |-> r.over]
      [] t.datatype = spBytes ->
            IF \/ newValue.isNull
               \/ newValue.value = NullStruct
               \/ newValue.value.buffer = NULLPTR
               \/ newValue.value.allocated_length < 1
               \/ newValue.value.written_length < 1
            THEN \* memset(tag->value_address, 0x0, tag->buffer_value_max_len)
                 LET w == StructOverwrite(cell, BufferValue(NULLPTR, 0, 0),
                                          t.buffer_value_max_len, lowSame)
                 IN  [cell |-> w.st, over |-> w.over]
            ELSE LET r == _copy_buffer_value(newValue.value, cell, heap, lowSame)
                 IN  [cell |-> r.target, over |-> IF r.ub THEN 1 ELSE 0]

\* fault variant of writeBasicTag: a write that succeeds also stamps the tag
\* as changed
writeBasicTag_StampsTag(tag, newValue, lowSame) ==
    LET t == tags[tag]
        w == WriteCell(t, mem[tag], newValue, bufs, lowSame)
    IN  /\ tag \in DOMAIN tags
        /\ IF WriteAllowed(t, newValue)
           THEN /\ mem' = [mem EXCEPT ![tag] = w.cell]
                /\ ub' = (ub \/ w.over > 0)
                /\ tags' = [tags EXCEPT ![tag].valueChanged = TRUE]
           ELSE UNCHANGED <<mem, ub, tags>>
        /\ UNCHANGED <<_head, nodes, _NodeCount, _tags_array, bufs, _timestamp_function, everRead>>
        /\ Did("writeBasicTag", tag, newValue, WriteAllowed(t, newValue))

\* writeBasicTag(tag, newValue) on a live tag
writeBasicTag(tag, newValue, lowSame) ==
    LET t == tags[tag]
        w == WriteCell(t, mem[tag], newValue, bufs, lowSame)
    IN  /\ tag \in DOMAIN tags
        /\ IF WriteAllowed(t, newValue)
           THEN /\ mem' = [mem EXCEPT ![tag] = w.cell]
                /\ ub' = (ub \/ w.over > 0)
           ELSE UNCHANGED <<mem, ub>>
        /\ UNCHANGED <<_head, nodes, _NodeCount, _tags_array, tags, bufs, _timestamp_function, everRead>>
        /\ Did("writeBasicTag", tag, newValue, WriteAllowed(t, newValue))

\* addValidateWriteCallback(tag, callbackFn) on a live tag
addValidateWriteCallback(tag, callbackFn) ==
    /\ tag \in DOMAIN tags
    /\ tags' = IF callbackFn = NullFn THEN tags
               ELSE [tags EXCEPT ![tag].validateWrite = callbackFn]
    /\ UNCHANGED <<_head, nodes, _NodeCount, _tags_array, mem, bufs, ub, _timestamp_function, everRead>>
    /\ Did("addValidateWriteCallback", tag, [callbackFn |-> callbackFn], callbackFn # NullFn)

\* the change callbacks a caller registers: "observe" looks at the tag it is
\* given (its invocations are recorded in last.cb)
Callbacks == {"observe"}

\* addOnChangeCallback(tag, callbackFn) on a live tag
addOnChangeCallback(tag, callbackFn) ==
    /\ tag \in DOMAIN tags
    /\ tags' = IF callbackFn = NullFn THEN tags
               ELSE [tags EXCEPT ![tag].onChange = callbackFn]
    /\ UNCHANGED <<_head, nodes, _NodeCount, _tags_array, mem, bufs, ub, _timestamp_function, everRead>>
    /\ Did("addOnChangeCallback", tag, [callbackFn |-> callbackFn], callbackFn # NullFn)

\* setBasicTagTimestampFunction(fn)
setBasicTagTimestampFunction(fn) ==
    /\ _timestamp_function' = IF fn = NullFn THEN _timestamp_function ELSE fn
    /\ UNCHANGED <<_head, nodes, _NodeCount, _tags_array, tags, mem, bufs, ub, everRead>>
    /\ Did("setBasicTagTimestampFunction", NULL, [fn |-> fn], fn # NullFn)

\* _timestamp(): 0 without an injected function, else what the function
\* returns (clock: what it would return on this call)
_timestamp(clock) == IF _timestamp_function = NullFn THEN 0 ELSE clock

\* fault variant of CountsAsChange: the change of any tag is reported
CountsAsChange_AnyAlias(alias) == TRUE

\* the aliases whose changes readAllBasicTags reports
CountsAsChange(alias) == alias > -1000

\* the state readAllBasicTags works on, before its loop
ReadAllStart ==
    [tags |-> tags, heap |-> bufs, ub |-> FALSE, valuesChanged |-> FALSE,
     reads |-> <<>>, cb |-> <<>>]

\* readAllBasicTags, loop body after the read of currentTag has returned
\* r: a change is counted for an alias above -1000
ReadAllCount(acc, currentTag, timestamp, r) ==
    [tags |-> [acc.tags EXCEPT ![currentTag] = r.t],
     heap |-> r.heap,
     ub |-> acc.ub \/ r.ub,
     valuesChanged |-> acc.valuesChanged \/ (r.ret /\ CountsAsChange(r.t.alias)),
     reads |-> Append(acc.reads, [tag |-> currentTag, timestamp |-> timestamp, ret |-> r.ret]),
     cb |-> acc.cb \o r.cb]

\* readAllBasicTags, loop body for the tag pointer currentTag.  readBasicTag
\* returns false for a NULL tag; a tag pointer read through a NULL
\* _tags_array is no tag, and reading it is undefined
ReadAllVisit(currentTag, timestamp, acc, indet, lowSame) ==
    IF currentTag \notin DOMAIN acc.tags
    THEN [acc EXCEPT !.ub = acc.ub \/ currentTag # NULL,
                     !.reads = Append(acc.reads,
                         [tag |-> currentTag, timestamp |-> timestamp, ret |-> FALSE])]
    ELSE ReadAllCount(acc, currentTag, timestamp,
             ReadResult(currentTag, acc.tags[currentTag], timestamp, acc.heap,
                        indet, lowSame, lowSame))

\* one iteration of the loop of readAllBasicTags, at position i (positions
\* count from 0); clocks: what the injected timestamp function returns on
\* each of its calls
ReadAllStep(i, clocks, acc, indet, lowSame) ==
    ReadAllVisit(getTagByIdx(i), _timestamp(clocks[i + 1]), acc, indet, lowSame)

\* fault variant of ReadAllFrom: the loop stops at the first change it counts
ReadAllFrom_StopsAtChange(i, clocks, acc, indet, lowSame) ==
    LET loop[k \in i.._NodeCount] ==
            IF k = i THEN acc
            ELSE IF loop[k - 1].valuesChanged THEN loop[k - 1]
            ELSE ReadAllStep(k - 1, clocks, loop[k - 1], indet, lowSame)
    IN  IF i >= _NodeCount THEN acc ELSE loop[_NodeCount]

\* the loop of readAllBasicTags from position i on: loop[k] is the state
\* when the loop variable is k
ReadAllFrom(i, clocks, acc, indet, lowSame) ==
    LET loop[k \in i.._NodeCount] ==
            IF k = i THEN acc
            ELSE ReadAllStep(k - 1, clocks, loop[k - 1], indet, lowSame)
    IN  IF i >= _NodeCount THEN acc ELSE loop[_NodeCount]

\* readAllBasicTags(), once its loop has ended in r
ReadAllReturn(r) ==
    /\ tags' = r.tags
    /\ bufs' = r.heap
    /\ ub' = (ub \/ r.ub)
    /\ everRead' = everRead \cup ({r.reads[k].tag : k \in DOMAIN r.reads} \cap DOMAIN tags)
    /\ UNCHANGED <<_head, nodes, _NodeCount, _tags_array, mem, _timestamp_function>>
    /\ DidLog("readAllBasicTags", NULL, [none |-> 0], r.valuesChanged, r.reads, r.cb)

\* readAllBasicTags()
readAllBasicTags(clocks, indet, lowSame) ==
    ReadAllReturn(ReadAllFrom(0, clocks, ReadAllStart, indet, lowSame))

(***************************************************************************)
(* Payload allocators for a caller's own BasicValue (part_001 lines        *)
(* 1008-1024 over 404-470).  The caller's BasicValue structs live in mem,  *)
(* named by the numbers in Slots; NULL is the absent BasicValue*.          *)
(***************************************************************************)
Slots == {1, 2}

SlotBuf(v) == <<"slot", v>>      \* storage malloc'd for the BufferValue of slot v

\* the payload pointer of a BasicValue that points at nothing
EmptyPayload(datatype) == IF datatype = spBytes THEN NullStruct ELSE <<>>

\* fault variant of StringAllocated: a second allocation replaces the first
StringAllocated_Again(stringValue, max_str_length, failed) ==
    IF max_str_length < 1 THEN [ok |-> TRUE, stringValue |-> <<>>]
    ELSE IF failed THEN [ok |-> FALSE, stringValue |-> <<>>]
    ELSE [ok |-> TRUE, stringValue |-> _init_string_value(max_str_length)]

\* _init_string_value(value, max_str_length) on any slot: its result and
\* value->stringValue afterwards; failed: malloc returns NULL
StringAllocated(stringValue, max_str_length, failed) ==
    IF stringValue # <<>> THEN [ok |-> FALSE, stringValue |-> stringValue]
    ELSE IF max_str_length < 1 THEN [ok |-> TRUE, stringValue |-> <<>>]
    ELSE IF failed THEN [ok |-> FALSE, stringValue |-> <<>>]
    ELSE [ok |-> TRUE, stringValue |-> _init_string_value(max_str_length)]

\* _init_buffer_value(value, buffer_size) on any slot: its result and
\* *value->bytesValue afterwards; failed: one of its two mallocs returns NULL
BufferAllocated(bytesValue, buf, buffer_size, failed) ==
    IF bytesValue # NullStruct THEN [ok |-> FALSE, bytesValue |-> bytesValue]
    ELSE IF failed THEN [ok |-> FALSE, bytesValue |-> NullStruct]
    ELSE [ok |-> TRUE, bytesValue |-> _init_buffer_value(buf, buffer_size)]

\* the caller declares a BasicValue of the datatype, its payload pointer NULL
DeclareValue(v, datatype) ==
    /\ v \notin DOMAIN mem
    /\ mem' = [x \in DOMAIN mem \cup {v} |->
                 IF x = v THEN BasicValue(0, datatype, EmptyPayload(datatype), TRUE)
                 ELSE mem[x]]
    /\ UNCHANGED <<_head, nodes, _NodeCount, _tags_array, tags, bufs, ub, _timestamp_function, everRead>>
    /\ Did("declare", NULL, [value |-> v, datatype |-> datatype], TRUE)

\* allocateStringValue(value, max_str_length)
allocateStringValue(value, max_str_length, failed) ==
    /\ value \in DOMAIN mem \cup {NULL}
    /\ value # NULL => mem[value].datatype \in StringTypes
    /\ \E r \in {IF value = NULL THEN [ok |-> FALSE, stringValue |-> <<>>] ELSE StringAllocated(mem[value].value, max_str_length, failed)} :
          /\ mem' = IF value = NULL THEN mem ELSE [mem EXCEPT ![value].value = r.stringValue]
          /\ UNCHANGED <<_head, nodes, _NodeCount, _tags_array, tags, bufs, ub, _timestamp_function, everRead>>
          /\ Did("allocateStringValue", NULL, [value |-> value, capacity |-> max_str_length, failed |-> failed], r.ok)

\* deallocateStringValue(value)
deallocateStringValue(value) ==
    /\ value \in DOMAIN mem \cup {NULL}
    /\ value # NULL => mem[value].datatype \in StringTypes
    /\ \E ok \in {value # NULL /\ mem[value].value # <<>>} :
          /\ mem' = IF ok THEN [mem EXCEPT ![value].value = <<>>] ELSE mem
          /\ UNCHANGED <<_head, nodes, _NodeCount, _tags_array, tags, bufs, ub, _timestamp_function, everRead>>
          /\ Did("deallocateStringValue", NULL, [value |-> value], ok)

\* allocateBufferValue(value, buffer_size)
allocateBufferValue(value, buffer_size, failed) ==
    /\ value \in DOMAIN mem \cup {NULL}
    /\ value # NULL => mem[value].datatype = spBytes
    /\ \E r \in {IF value = NULL THEN [ok |-> FALSE, bytesValue |-> NullStruct] ELSE BufferAllocated(mem[value].value, SlotBuf(value), buffer_size, failed)} :
          /\ mem' = IF value = NULL THEN mem ELSE [mem EXCEPT ![value].value = r.bytesValue]
          /\ bufs' = IF r.ok /\ buffer_size >= 1
                     THEN [b \in DOMAIN bufs \cup {SlotBuf(value)} |->
                             IF b = SlotBuf(value) THEN [i \in 1..buffer_size |-> IndetByte]
                             ELSE bufs[b]]
                     ELSE bufs
          /\ UNCHANGED <<_head, nodes, _NodeCount, _tags_array, tags, ub, _timestamp_function, everRead>>
          /\ Did("allocateBufferValue", NULL, [value |-> value, capacity |-> buffer_size, failed |-> failed], r.ok)

\* deallocateBufferValue(value)
deallocateBufferValue(value) ==
    /\ value \in DOMAIN mem \cup {NULL}
    /\ value # NULL => mem[value].datatype = spBytes
    /\ \E ok \in {value # NULL /\ mem[value].value # NullStruct} :
          /\ mem' = IF ok THEN [mem EXCEPT ![value].value = NullStruct] ELSE mem
          /\ bufs' = IF ok THEN [b \in DOMAIN bufs \ {mem[value].value.buffer} |-> bufs[b]]
                     ELSE bufs
          /\ UNCHANGED <<_head, nodes, _NodeCount, _tags_array, tags, ub, _timestamp_function, everRead>>
          /\ Did("deallocateBufferValue", NULL, [value |-> value], ok)

(***************************************************************************)
(* Initial state: an empty registry.                                       *)
(***************************************************************************)
Init ==
    /\ _head = NULL
    /\ nodes = <<>>
    /\ _NodeCount = 0
    /\ _tags_array = <<>>
    /\ tags = <<>>
    /\ mem = <<>>
    /\ bufs = [b \in {CandBuf} |-> [i \in 1..CallerBufLen |-> 1]]
    /\ ub = FALSE
    /\ _timestamp_function = NullFn
    /\ everRead = {}
    /\ last = [op |-> "init", tag |-> NULL, arg |-> [none |-> 0], ret |-> FALSE,
               after |-> "-", first |-> FALSE, reads |-> <<>>, cb |-> <<>>, seq |-> 0]

(***************************************************************************)
(* The registry specification: a caller creating and deleting integer      *)
(* tags, with any requested aliases and names.                             *)
(***************************************************************************)
AliasChoices == {-2, 0, 1}

CreateAny ==
    /\ _NodeCount < MaxTags
    /\ \E name \in Names, alias \in AliasChoices :
          /\ AssignedAlias(alias) <= MaxAlias
          /\ createTag(name, TRUE, alias, spInt8, TRUE, FALSE, 0, 10, <<>>, {})

DeleteAny == \E tag \in DOMAIN tags : deleteTag(tag, {})

NextRegistry == CreateAny \/ DeleteAny

SpecRegistry == Init /\ [][NextRegistry]_vars

(***************************************************************************)
(* The engine specification: a caller that creates one tag of any          *)
(* datatype, with or without a memory cell, then reads it, writes it and   *)
(* stores into the cell itself, in any order.                              *)
(***************************************************************************)
\* the strings the caller uses: 1, 12, 121, ... and 2
Alt(n) == [i \in 1..n |-> IF i % 2 = 1 THEN 1 ELSE 2]

StrChoices == {Alt(n) : n \in 0..(CellSize - 1)} \cup {<<2>>}

\* a caller's char array holding string s
CellBlock(s) == s \o Zeros(CellSize - Len(s))

ByteLens == {0, MaxBufCap}

\* the content of a caller's byte storage: first byte b, the rest 0
ByteBlock(b) == [i \in 1..CallerBufLen |-> IF i = 1 THEN b ELSE 0]

\* what a caller's memory cell of a tag of the datatype may hold
Cells(tag, datatype) ==
    CASE datatype = spInt8 -> Int8Vals
      [] datatype = spFloat -> FloatVals
      [] datatype \in StringTypes -> {CellBlock(s) : s \in StrChoices}
      [] datatype = spBytes -> {BufferValue(CellBuf(tag), w, CallerBufLen) : w \in ByteLens}

CellBytes(datatype) ==
    IF datatype = spBytes THEN {ByteBlock(b) : b \in {1}} ELSE {<<>>}

\* the BasicValue candidates a caller passes to writeBasicTag
WriteCandidates(datatype) ==
    CASE datatype = spInt8 -> {[isNull |-> FALSE, value |-> v] : v \in Int8Vals}
      [] datatype = spFloat -> {[isNull |-> FALSE, value |-> v] : v \in FloatVals}
      [] datatype \in StringTypes ->
            {[isNull |-> TRUE, value |-> <<>>], [isNull |-> FALSE, value |-> <<>>]}
            \cup {[isNull |-> FALSE, value |-> s \o <<0>>] : s \in StrChoices}
      [] datatype = spBytes ->
            {[isNull |-> TRUE, value |-> NullStruct]}
            \cup {[isNull |-> FALSE, value |-> BufferValue(CandBuf, w, CallerBufLen)] :
                    w \in ByteLens}

Capacities(datatype) ==
    CASE datatype \in FixedTypes -> {0}
      [] datatype \in StringTypes -> 0..MaxStrCap
      [] datatype = spBytes -> {0, MaxBufCap}

Writability == {<<FALSE, FALSE>>, <<TRUE, FALSE>>, <<FALSE, TRUE>>}

\* the caller stores into its own memory cell
Poke(tag, cell, cellBytes) ==
    /\ tag \in DOMAIN tags
    /\ tags[tag].value_address # NULL
    /\ mem' = [mem EXCEPT ![tag] = cell]
    /\ bufs' = IF tags[tag].datatype = spBytes
               THEN [b \in DOMAIN bufs \cup {CellBuf(tag)} |->
                        IF b = CellBuf(tag) THEN cellBytes ELSE bufs[b]]
               ELSE bufs
    /\ UNCHANGED <<_head, nodes, _NodeCount, _tags_array, tags, ub, _timestamp_function, everRead>>
    /\ Did("poke", tag, [store |-> cell], TRUE)

\* the nondeterminism of a read or write matters for byte buffers only
Outcomes(tag) == IF tags[tag].datatype = spBytes THEN BOOLEAN ELSE {FALSE}

CreateOne(datatypes, writability) ==
    /\ _head = NULL
    /\ \E datatype \in datatypes, hasAddress \in BOOLEAN, wr \in writability :
       \E cap \in Capacities(datatype) :
       \E cell \in Cells(NewHandle, datatype), cellBytes \in CellBytes(datatype) :
          /\ hasAddress \/ (cell = CHOOSE c \in Cells(NewHandle, datatype) : TRUE)
          /\ createTag("testing/string 1", hasAddress, 1, datatype, wr[1], wr[2],
                       cap, cell, cellBytes, {})

ReadAny(timestamps) ==
    \E tag \in DOMAIN tags, timestamp \in timestamps :
    \E indet \in Outcomes(tag), lowSame1 \in Outcomes(tag), lowSame2 \in Outcomes(tag) :
        readBasicTag(tag, timestamp, indet, lowSame1, lowSame2)

WriteAny ==
    \E tag \in DOMAIN tags :
    \E newValue \in WriteCandidates(tags[tag].datatype), lowSame \in Outcomes(tag) :
        writeBasicTag(tag, newValue, lowSame)

ValidatorAny ==
    \E tag \in DOMAIN tags, callbackFn \in Validators \cup {NullFn} :
        addValidateWriteCallback(tag, callbackFn)

PokeAny ==
    \E tag \in DOMAIN tags :
    \E cell \in Cells(tag, tags[tag].datatype), cellBytes \in CellBytes(tags[tag].datatype) :
        Poke(tag, cell, cellBytes)

EngineTypes == {spInt8, spFloat, spString, spBytes}

CreateEngine == CreateOne(EngineTypes, {<<TRUE, FALSE>>})

ReadEngine == ReadAny(Timestamps)

NextEngine == CreateEngine \/ ReadEngine \/ WriteAny \/ PokeAny

SpecEngine == Init /\ [][NextEngine]_vars

(***************************************************************************)
(* The write-precondition specification: one tag with any combination of   *)
(* writability flags, with or without a memory cell, on which callbacks are *)
(* registered and which is written and read.                               *)
(***************************************************************************)
CreateWrite == CreateOne(EngineTypes, Writability)

ReadWrite == ReadAny({100})

NextWrite == CreateWrite \/ ValidatorAny \/ WriteAny \/ ReadWrite

SpecWrite == Init /\ [][NextWrite]_vars

(***************************************************************************)
(* The round-trip specification: one writable tag over a memory cell,      *)
(* written and read at the timestamps 100 and 200, as in the example of    *)
(* the documentation (alias 1, an integer cell holding 10, write 20).      *)
(***************************************************************************)
RoundTimestamps == {100, 200}

\* an integer tag is created over a cell holding 10
CreateRound ==
    /\ CreateOne(EngineTypes, {<<TRUE, FALSE>>, <<FALSE, TRUE>>})
    /\ tags'[_head'].datatype = spInt8 => mem'[_head'] = 10

ReadRound == ReadAny(RoundTimestamps)

NextRound == CreateRound \/ WriteAny \/ ReadRound

SpecRound == Init /\ [][NextRound]_vars

(***************************************************************************)
(* The allocation specification: a caller creating tags of a fixed-width,  *)
(* a string and a byte-buffer type while any one allocation of the call    *)
(* may fail, and calling deleteTag with any handle it ever held, or NULL.  *)
(***************************************************************************)
AllocTypes == {spInt8, spString, spBytes}

\* the allocations createTag makes for a tag of the datatype
AllocationsOf(datatype) ==
    IF datatype \in FixedTypes THEN {"tag", "node", "array"} ELSE AllocationPoints

\* at most one allocation of a call fails
FailureChoices(datatype) == {{}} \cup {{a} : a \in AllocationsOf(datatype)}

AllocCapacity(datatype) ==
    CASE datatype \in FixedTypes -> 0
      [] datatype \in StringTypes -> MaxStrCap
      [] datatype = spBytes -> MaxBufCap

\* the tags the list holds
Registered == {nodes[n].tag_ptr : n \in DOMAIN nodes}

\* the caller creates no tag while it holds one that was not registered
CreateAlloc ==
    /\ _NodeCount < MaxTags
    /\ DOMAIN tags \subseteq Registered
    /\ \E datatype \in AllocTypes, alias \in {1} :
       \E fails \in FailureChoices(datatype) :
          /\ AssignedAlias(alias) <= MaxAlias
          /\ createTag("testing/string 1", TRUE, alias, datatype, TRUE, FALSE,
                       AllocCapacity(datatype),
                       CHOOSE c \in Cells(NewHandle, datatype) : TRUE,
                       CHOOSE b \in CellBytes(datatype) : TRUE, fails)

DeleteAlloc ==
    \E tag \in Handles \cup {NULL}, fails \in {{}, {"array"}} : deleteTag(tag, fails)

NextAlloc == CreateAlloc \/ DeleteAlloc

SpecAlloc == Init /\ [][NextAlloc]_vars

(***************************************************************************)
(* The counting specification: integer tags created (any one allocation of *)
(* the call may fail) and deleted, and in between read, written and given  *)
(* callbacks.                                                              *)
(***************************************************************************)
CreateCount ==
    /\ _NodeCount < MaxTags - 1
    /\ DOMAIN tags \subseteq Registered
    /\ \E fails \in FailureChoices(spInt8) :
          /\ AssignedAlias(1) <= MaxAlias
          /\ createTag("testing/string 1", TRUE, 1, spInt8, TRUE, FALSE, 0, 10, <<>>, fails)

ReadCount == ReadAny({100})

WriteCount == \E tag \in DOMAIN tags : writeBasicTag(tag, [isNull |-> FALSE, value |-> 10], FALSE)

CallbackCount ==
    \E tag \in DOMAIN tags :
        \/ addValidateWriteCallback(tag, "rejectAll")
        \/ addOnChangeCallback(tag, NullFn)

NextCount == CreateCount \/ DeleteAlloc \/ ReadCount \/ WriteCount \/ CallbackCount

SpecCount == Init /\ [][NextCount]_vars

(***************************************************************************)
(* The notification specification: one tag of any datatype, with or        *)
(* without a memory cell, on which a change callback may be registered,    *)
(* read while the caller stores into its cell.                             *)
(***************************************************************************)
OnChangeAny ==
    \E tag \in DOMAIN tags, callbackFn \in Callbacks \cup {NullFn} :
        addOnChangeCallback(tag, callbackFn)

NextNotify == CreateEngine \/ OnChangeAny \/ ReadEngine \/ PokeAny

SpecNotify == Init /\ [][NextNotify]_vars

(***************************************************************************)
(* The read-all specification: integer tags with aliases below, at and     *)
(* above -1000, read all at once, with and without an injected timestamp   *)
(* function, while the caller stores into their cells.                     *)
(***************************************************************************)
ReadAllAliases == {-1001, -1000, -999}

\* what the injected timestamp function returns
ClockValues == {100}

\* the tags are created before the reading starts
CreateReadAll ==
    /\ _NodeCount < MaxTags - 1
    /\ everRead = {}
    /\ \E alias \in ReadAllAliases, hasAddress \in {TRUE} :
          /\ AssignedAlias(alias) <= MaxAlias
          /\ createTag("testing/string 1", hasAddress, alias, spInt8, TRUE, FALSE, 0, 10, <<>>, {})

PokeReadAll == \E tag \in DOMAIN tags, cell \in Int8Vals : Poke(tag, cell, <<>>)

\* the timestamp function is injected, if at all, before the reading starts
SetClock ==
    /\ everRead = {}
    /\ \E fn \in {NullFn, "clock"} : setBasicTagTimestampFunction(fn)

\* without an injected function the clock is not consulted
ReadAll ==
    \E clocks \in [1.._NodeCount -> ClockValues] :
        /\ _timestamp_function = NullFn => \A i \in 1.._NodeCount : clocks[i] = 100
        /\ readAllBasicTags(clocks, FALSE, FALSE)

NextReadAll == CreateReadAll \/ PokeReadAll \/ SetClock \/ ReadAll

SpecReadAll == Init /\ [][NextReadAll]_vars

(***************************************************************************)
(* The payload specification: a caller declaring BasicValues of its own    *)
(* and allocating and releasing their string and byte-buffer payloads in   *)
(* any order, with any capacity, while a malloc may fail.                  *)
(***************************************************************************)
SlotCapacities(datatype) == IF datatype = spBytes THEN {0, MaxBufCap} ELSE 0..MaxStrCap

DeclareAny == \E v \in Slots, datatype \in {spString, spBytes} : DeclareValue(v, datatype)

AllocateAny ==
    \E value \in DOMAIN mem \cup {NULL}, failed \in BOOLEAN :
        \/ \E cap \in SlotCapacities(spString) : allocateStringValue(value, cap, failed)
        \/ \E cap \in SlotCapacities(spBytes) : allocateBufferValue(value, cap, failed)

DeallocateAny ==
    \E value \in DOMAIN mem \cup {NULL} :
        deallocateStringValue(value) \/ deallocateBufferValue(value)

NextPayload == DeclareAny \/ AllocateAny \/ DeallocateAny

SpecPayload == Init /\ [][NextPayload]_vars

(***************************************************************************)
(* The byte-buffer specification: one byte-buffer tag over a caller's      *)
(* BufferValue, created with no capacity, with a capacity shorter than a   *)
(* BufferValue struct's first two fields, or with one that reaches into    *)
(* its third; the caller changes the written length and the bytes of its   *)
(* buffer between reads.                                                   *)
(***************************************************************************)
\* a capacity one byte longer than the buffer and written_length fields
WideCap == PtrBytes + SizeBytes + 1

\* bytes of the caller's byte storage in this specification
WideLen == WideCap + 1

BufferCapacities == {0, MaxBufCap, WideCap}

BufferLens == {0, MaxBufCap, WideCap}

\* the content of the caller's byte storage: first byte b, the rest 0
WideBlock(b) == [i \in 1..WideLen |-> IF i = 1 THEN b ELSE 0]

BufferCells(tag) == {BufferValue(CellBuf(tag), w, WideLen) : w \in BufferLens}

BufferBytes == {WideBlock(b) : b \in {1, 2}}

CreateBuffer ==
    /\ _head = NULL
    /\ \E cap \in BufferCapacities, cell \in BufferCells(NewHandle), cellBytes \in BufferBytes :
          createTag("testing/string 1", TRUE, 1, spBytes, TRUE, FALSE, cap, cell, cellBytes, {})

ReadBuffer == ReadAny({100})

\* the caller stores into its BufferValue and its bytes; the record of the
\* store keeps what they held before, and whether the call before was a
\* read of the tag that reported a change
PokeBytes(tag, cell, cellBytes) ==
    /\ tag \in DOMAIN tags
    /\ tags[tag].datatype = spBytes /\ tags[tag].value_address # NULL
    /\ CellBuf(tag) \in DOMAIN bufs
    /\ mem' = [mem EXCEPT ![tag] = cell]
    /\ bufs' = [bufs EXCEPT ![CellBuf(tag)] = cellBytes]
    /\ UNCHANGED <<_head, nodes, _NodeCount, _tags_array, tags, ub, _timestamp_function, everRead>>
    /\ Did("pokeBytes", tag, [store |-> cell, bytes |-> cellBytes, was |-> mem[tag], wasBytes |-> bufs[CellBuf(tag)], afterChanged |-> (last.op = "readBasicTag" /\ last.tag = tag /\ last.ret)], TRUE)

PokeBuffer ==
    \E tag \in DOMAIN tags :
        \E cell \in BufferCells(tag), cellBytes \in BufferBytes :
            PokeBytes(tag, cell, cellBytes)

NextBuffer == CreateBuffer \/ ReadBuffer \/ PokeBuffer

SpecBuffer == Init /\ [][NextBuffer]_vars

(***************************************************************************)
(* The string-copy specification: _copy_string_value applied to a source   *)
(* string and a destination char array of the caller, either of which may  *)
(* be NULL, with bounds from 0 up to what the destination can take.        *)
(***************************************************************************)
\* source strings with their terminator, and the NULL pointer
CopySources == {s \o <<0>> : s \in StrChoices} \cup {<<>>}

\* destination char arrays, and the NULL pointer
CopyTargets == {CellBlock(s) : s \in StrChoices} \cup {<<>>}

\* bounds that leave room for the terminator in a destination array
CopyBounds == 0..(CellSize - 1)

\* the call _copy_string_value(reference_str, target_str, max) with result r
CopyStringCall(reference_str, target_str, buffer_value_max_len, r) ==
    /\ UNCHANGED <<_head, nodes, _NodeCount, _tags_array, tags, mem, bufs, ub, _timestamp_function, everRead>>
    /\ Did("_copy_string_value", NULL, [reference |-> reference_str, target |-> target_str, max |-> buffer_value_max_len, result |-> r.target, over |-> r.over], r.ok)

CopyString ==
    \E reference_str \in CopySources, target_str \in CopyTargets, max \in CopyBounds :
        CopyStringCall(reference_str, target_str, max, _copy_string_value(reference_str, target_str, max))

NextCopy == CopyString

SpecCopy == Init /\ [][NextCopy]_vars

(***************************************************************************)
(* The iteration specification: a caller creating and deleting integer     *)
(* tags and iterating over them with an action that looks at each tag or   *)
(* one that deletes it.                                                    *)
(***************************************************************************)
CreateIter ==
    /\ _NodeCount < MaxTags
    /\ \E name \in Names :
          /\ AssignedAlias(1) <= MaxAlias
          /\ createTag(name, TRUE, 1, spInt8, TRUE, FALSE, 0, 10, <<>>, {})

IterAny == \E tagFn \in TagFunctions, stale \in BOOLEAN : iterTags(tagFn, stale)

NextIter == CreateIter \/ DeleteAny \/ IterAny

SpecIter == Init /\ [][NextIter]_vars

(***************************************************************************)
(* The alias specification: a caller creating integer tags with requested  *)
(* aliases at the top of the int range, and deleting them.                 *)
(***************************************************************************)
TopAliases == {IntMax - 1, IntMax}

CreateTop ==
    /\ _NodeCount < MaxTags
    /\ \E name \in Names, alias \in TopAliases :
          \/ createTag(name, TRUE, alias, spInt8, TRUE, FALSE, 0, 10, <<>>, {})
          \/ createTagTraps(alias, spInt8)

NextAlias == CreateTop \/ DeleteAny

SpecAlias == Init /\ [][NextAlias]_vars

(***************************************************************************)
(* The polling specification: integer tags, with or without a memory       *)
(* cell, with aliases at and above -1000, read all at once again and       *)
(* again, with and without an injected timestamp function, which may       *)
(* return 0.                                                               *)
(***************************************************************************)
PollAliases == {-1000, 1}

\* what the injected timestamp function returns
PollClocks == {0, 100}

\* the tags are created before the reading starts
CreatePoll ==
    /\ _NodeCount < MaxTags - 1
    /\ everRead = {}
    /\ \E alias \in PollAliases, hasAddress \in BOOLEAN :
          /\ AssignedAlias(alias) <= MaxAlias
          /\ createTag("testing/string 1", hasAddress, alias, spInt8, TRUE, FALSE, 0, 10, <<>>, {})

\* without an injected function the clock is not consulted
ReadPoll ==
    \E clocks \in [1.._NodeCount -> PollClocks] :
        /\ _timestamp_function = NullFn => \A i \in 1.._NodeCount : clocks[i] = 100
        /\ readAllBasicTags(clocks, FALSE, FALSE)

NextPoll == CreatePoll \/ PokeReadAll \/ SetClock \/ ReadPoll

SpecPoll == Init /\ [][NextPoll]_vars

(***************************************************************************)
(* The UUID specification: one string-like tag made by the generic         *)
(* constructor, with a capacity below, at or above the length of a UUID,   *)
(* over a char array that holds up to one character more than a UUID.      *)
(***************************************************************************)
UuidCapacities == {0, UUIDLen, UUIDLen + 1}

UuidCellSize == UUIDLen + 2

\* a caller's char array holding a string of n characters c
UuidCell(n, c) == [i \in 1..UuidCellSize |-> IF i <= n THEN c ELSE 0]

UuidCells == {UuidCell(n, c) : n \in UuidCapacities, c \in {1, 2}}

CreateUuid ==
    /\ _head = NULL
    /\ \E datatype \in StringTypes, cap \in UuidCapacities, cell \in UuidCells :
          createTag("testing/string 1", TRUE, 1, datatype, TRUE, FALSE, cap, cell, <<>>, {})

PokeUuid == \E tag \in DOMAIN tags, cell \in UuidCells : Poke(tag, cell, <<>>)

ReadUuid == ReadAny({100})

NextUuid == CreateUuid \/ PokeUuid \/ ReadUuid \/ DeleteAny

SpecUuid == Init /\ [][NextUuid]_vars

(***************************************************************************)
(* Properties.  A step of the specifications is one API call (or one store *)
(* of the caller into its cell); last' describes the call of the step and  *)
(* last the call before it.                                                *)
(***************************************************************************)
\* string s cut to at most n bytes
Trunc(s, n) == SubSeq(s, 1, Min(Len(s), IF n < 0 THEN 0 ELSE n))

\* the string a write of candidate v is expected to leave in a cell of
\* capacity cap: v cut to cap bytes, empty for a null or empty candidate
ExpectedStr(v, cap) == IF v.isNull \/ v.value = <<>> THEN <<>> ELSE Trunc(CStr(v.value), cap)

\* BasicValue cur of tag record t holds the written candidate v
HoldsWritten(cur, v, t) ==
    CASE t.datatype \in FixedTypes -> ~cur.isNull /\ cur.value = v.value
      [] t.datatype \in StringTypes ->
            LET e == ExpectedStr(v, t.buffer_value_max_len)
            IN  IF e = <<>> THEN cur.isNull ELSE ~cur.isNull /\ CStr(cur.value) = e

\* the written candidate v differs from what BasicValue cur of tag record t holds
DiffersFromWritten(cur, v, t) ==
    CASE t.datatype = spInt8 -> cur.isNull \/ cur.value # v.value
      [] t.datatype = spFloat ->
            cur.isNull \/ cur.value = "NaN" \/ v.value = "NaN" \/ cur.value # v.value
      [] t.datatype \in StringTypes ->
            LET e == ExpectedStr(v, t.buffer_value_max_len)
            IN  \/ cur.isNull # (e = <<>>)
                \/ (~cur.isNull /\ CStr(cur.value) # e)

\* C1 (as stated, for fixed-width and string tags): a successful
\* writeBasicTag(tag, v) followed by readBasicTag(tag, t) at a timestamp later
\* than the tag's last read returns true and leaves currentValue equal to v
\* (cut to buffer_value_max_len), whatever the tag held before.
C1_RoundTripAlwaysChanged ==
    [][(/\ last'.op = "readBasicTag" /\ last'.after = "written"
        /\ tags[last'.tag].datatype # spBytes
        /\ last'.arg.timestamp > tags[last'.tag].lastRead)
       => /\ last'.ret = TRUE
          /\ HoldsWritten(tags'[last'.tag].currentValue, last.arg, tags[last'.tag])
      ]_vars

\* C1 (amended): for a fixed-width or string tag, a successful
\* writeBasicTag(tag, v) followed by readBasicTag(tag, t) leaves currentValue
\* equal to v (cut to buffer_value_max_len; an empty result is held as null),
\* and the read returns true exactly when it is the first change the tag records
\* (currentValue.timestamp is 0) or v differs from the value held before.
C1_RoundTrip ==
    [][(/\ last'.op = "readBasicTag" /\ last'.after = "written"
        /\ tags[last'.tag].datatype # spBytes)
       => LET t == tags[last'.tag]
          IN  /\ last'.ret = (\/ t.currentValue.timestamp = 0
                              \/ DiffersFromWritten(t.currentValue, last.arg, t))
              /\ HoldsWritten(tags'[last'.tag].currentValue, last.arg, t)
      ]_vars

\* C1 witness: a read at 200 that followed a successful write returned false,
\* the tag holding the value it had observed at 100.
C1_Witness ==
    /\ last.op = "readBasicTag" /\ last.after = "written" /\ last.arg.timestamp = 200
    /\ last.ret = FALSE
    /\ tags[last.tag].currentValue.timestamp = 100
    /\ tags[last.tag].datatype = spString
    /\ ~tags[last.tag].currentValue.isNull

\* C2: the first readBasicTag of a tag since its creation returns true,
\* whatever the cell holds, with or without a value_address, at any timestamp.
C2_FirstReadChanges ==
    (last.op = "readBasicTag" /\ last.first) => last.ret = TRUE

\* C2 witness: the first read of a string tag whose cell holds the empty
\* string, at timestamp 0, has returned true.
C2_Witness ==
    /\ last.op = "readBasicTag" /\ last.first /\ last.ret = TRUE /\ last.arg.timestamp = 0
    /\ tags[last.tag].datatype = spString
    /\ tags[last.tag].value_address # NULL
    /\ strlen(mem[last.tag]) = 0

\* the content of the cell of tag record t fits the tag's buffers
Fits(t, cell) ==
    CASE t.datatype \in FixedTypes -> TRUE
      [] t.datatype \in StringTypes ->
            t.buffer_value_max_len < 1 \/ strlen(cell) <= t.buffer_value_max_len
      [] t.datatype = spBytes -> cell.written_length <= t.buffer_value_max_len

ExampleFirstRead ==
    /\ last'.op = "readBasicTag" /\ last'.first /\ last'.arg.timestamp = 100
    /\ tags[last'.tag].datatype = spInt8
    /\ tags[last'.tag].alias = 1
    /\ last'.after = "written" /\ last.arg.value = 20

\* the second read of the example: the same tag is read at 200 directly after
\* that first read
ExampleSecondRead ==
    /\ last'.op = "readBasicTag" /\ last'.arg.timestamp = 200
    /\ last.op = "readBasicTag" /\ last.tag = last'.tag /\ last.first /\ last.arg.timestamp = 100
    /\ tags[last'.tag].datatype = spInt8
    /\ tags[last'.tag].alias = 1
    /\ tags[last'.tag].value_address # NULL
    /\ mem[last'.tag] = 20

\* C4 (as stated): in the example, the read at 100 returns true and leaves
\* currentValue = 20 and previousValue = 10; the read at 200 returns false and
\* currentValue is still 20.
C4_Example ==
    [][/\ ExampleFirstRead =>
            /\ last'.ret = TRUE
            /\ tags'[last'.tag].currentValue.value = 20
            /\ ~tags'[last'.tag].currentValue.isNull
            /\ tags'[last'.tag].previousValue.value = 10
            /\ ~tags'[last'.tag].previousValue.isNull
       /\ ExampleSecondRead =>
            /\ last'.ret = FALSE
            /\ tags'[last'.tag].currentValue.value = 20
      ]_vars

\* C4 (amended): in the example, the read at 100 returns true and leaves
\* currentValue = 20 recorded at 100, and previousValue null with timestamp 0
\* (the tag never observed the 10); the read at 200 returns false and
\* currentValue is still 20.
C4_ExampleNoPrevious ==
    [][/\ ExampleFirstRead =>
            /\ last'.ret = TRUE
            /\ tags'[last'.tag].currentValue.value = 20
            /\ ~tags'[last'.tag].currentValue.isNull
            /\ tags'[last'.tag].currentValue.timestamp = 100
            /\ tags'[last'.tag].previousValue.isNull
            /\ tags'[last'.tag].previousValue.timestamp = 0
            /\ tags'[last'.tag].previousValue.value # 10
       /\ ExampleSecondRead =>
            /\ last'.ret = FALSE
            /\ tags'[last'.tag].currentValue.value = 20
            /\ tags'[last'.tag].currentValue.timestamp = 100
      ]_vars

\* C4 witness: the end of the example: the read at 200 has returned false, the
\* tag holding 20 since 100 and no previous value.
C4_Witness ==
    /\ last.op = "readBasicTag" /\ last.arg.timestamp = 200 /\ last.after = "read"
    /\ last.ret = FALSE
    /\ tags[last.tag].datatype = spInt8 /\ tags[last.tag].alias = 1
    /\ tags[last.tag].currentValue.value = 20
    /\ tags[last.tag].currentValue.timestamp = 100
    /\ tags[last.tag].previousValue.timestamp = 0
    /\ tags[last.tag].lastRead = 200
    /\ mem[last.tag] = 20

\* the validation callback of tag record t rejects candidate v
Rejects(t, v) == t.validateWrite # NullFn /\ ~Validate(t.validateWrite, v)

\* C5: writeBasicTag on a tag with both writability flags false returns false
\* and leaves the caller's cell and every byte buffer unchanged, for every
\* datatype and candidate; with either flag set, a value_address and no
\* rejecting callback, it returns true.
C5_UnwritableRejects ==
    [][last'.op = "writeBasicTag"
       => LET t == tags[last'.tag]
          IN  /\ (~t.local_writable /\ ~t.remote_writable)
                    => (last'.ret = FALSE /\ mem' = mem /\ bufs' = bufs)
              /\ ((t.local_writable \/ t.remote_writable) /\ t.value_address # NULL
                  /\ ~Rejects(t, last'.arg))
                    => last'.ret = TRUE
      ]_vars

\* C5 witness: a write to a byte-buffer tag with a cell, no callback and both
\* flags false has returned false.
C5_Witness ==
    /\ last.op = "writeBasicTag" /\ last.ret = FALSE
    /\ ~tags[last.tag].local_writable /\ ~tags[last.tag].remote_writable
    /\ tags[last.tag].value_address # NULL
    /\ tags[last.tag].validateWrite = NullFn
    /\ tags[last.tag].datatype = spBytes

\* C6: when the registered callback rejects the candidate, or the tag has no
\* value_address, writeBasicTag returns false and changes neither the caller's
\* cells, nor the tag, nor any byte buffer; when no callback rejects and the
\* tag has a value_address and a writability flag, it returns true and a
\* fixed-width cell holds the candidate.
C6_RejectedWriteHasNoEffect ==
    [][last'.op = "writeBasicTag"
       => LET t == tags[last'.tag]
          IN  /\ (Rejects(t, last'.arg) \/ t.value_address = NULL)
                    => (last'.ret = FALSE /\ mem' = mem /\ tags' = tags /\ bufs' = bufs)
              /\ (~Rejects(t, last'.arg) /\ t.value_address # NULL
                  /\ (t.local_writable \/ t.remote_writable))
                    => /\ last'.ret = TRUE
                       /\ t.datatype \in FixedTypes => mem'[last'.tag] = last'.arg.value
      ]_vars

\* C6 witness: a null candidate written to a writable string tag with a cell
\* was rejected by the callback that rejects nulls.
C6_Witness ==
    /\ last.op = "writeBasicTag" /\ last.ret = FALSE
    /\ tags[last.tag].validateWrite = "rejectNull" /\ last.arg.isNull
    /\ tags[last.tag].value_address # NULL
    /\ tags[last.tag].local_writable
    /\ tags[last.tag].datatype = spString
    /\ strlen(mem[last.tag]) > 0

\* the fields of a tag that record what it has read
ReadState(t) == <<t.currentValue, t.previousValue, t.lastRead, t.valueChanged>>

\* C7: writeBasicTag, returning true or false, leaves currentValue,
\* previousValue (with their timestamps), lastRead and valueChanged of every
\* tag, and the byte buffers, unchanged; a call that changes any of them on a
\* tag is a readBasicTag of that tag.
C7_WriteLeavesReadState ==
    [][/\ last'.op = "writeBasicTag"
            => /\ ReadState(tags'[last'.tag]) = ReadState(tags[last'.tag])
               /\ bufs' = bufs
       /\ \A tag \in DOMAIN tags \cap DOMAIN tags' :
            ReadState(tags'[tag]) # ReadState(tags[tag])
                => (last'.op = "readBasicTag" /\ last'.tag = tag)
      ]_vars

\* C7 witness: a write has succeeded on an integer tag that had been read, and
\* the cell now differs from the currentValue the tag still holds from 100.
C7_Witness ==
    /\ last.op = "writeBasicTag" /\ last.ret = TRUE
    /\ tags[last.tag].datatype = spInt8
    /\ tags[last.tag].currentValue.timestamp = 100
    /\ tags[last.tag].lastRead = 100
    /\ tags[last.tag].currentValue.value # mem[last.tag]

\* a step that writes to a string tag a candidate longer than the tag's
\* buffer_value_max_len, passing the preconditions of writeBasicTag
LongStringWrite ==
    /\ last'.op = "writeBasicTag" /\ last'.ret = TRUE
    /\ tags[last'.tag].datatype \in StringTypes
    /\ ~last'.arg.isNull /\ last'.arg.value # <<>>
    /\ strlen(last'.arg.value) > tags[last'.tag].buffer_value_max_len

\* the cell holds the first n bytes of candidate v, then a terminator, and is
\* otherwise as it was in `old`
BoundedCopy(cell, old, v, n) ==
    /\ \A i \in 1..n : cell[i] = v[i]
    /\ cell[n + 1] = 0
    /\ \A i \in (n + 2)..Len(cell) : cell[i] = old[i]
    /\ Len(cell) = Len(old)

HeldAliases == {tags[t].alias : t \in DOMAIN tags}

\* the greatest alias held by a registered tag
MaxHeld == CHOOSE m \in HeldAliases : \A a \in HeldAliases : a <= m

\* C9 (as stated): getNextAlias returns 1 on an empty registry and otherwise
\* the greatest alias held by a registered tag plus 1, whatever the signs of
\* the aliases; createTag gives a new tag the requested alias when no tag
\* holds it, and that next alias when one does.
C9_AliasReassignment ==
    [][/\ getNextAlias = IF HeldAliases = {} THEN 1 ELSE MaxHeld + 1
       /\ last'.op = "createTag"
            => tags'[last'.tag].alias =
                    IF last'.arg.alias \in HeldAliases
                    THEN (IF HeldAliases = {} THEN 1 ELSE MaxHeld + 1)
                    ELSE last'.arg.alias
      ]_vars

\* the sequence without its entries equal to x
Without(seq, x) == LET keep(y) == y # x IN SelectSeq(seq, keep)

\* C10: after deleteTag(T) on one of N registered tags, getTagsCount() is
\* N - 1, no lookup by alias or by name returns T, getTagByIdx over 0..N-2
\* returns the remaining tags in the order they had before, and
\* getTagByIdx(N-1) returns NULL.
C10_DeletionConsistency ==
    [][last'.op = "deleteTag"
       => LET T == last'.tag
              N == _NodeCount
              rest == Without(_tags_array, T)
          IN  /\ getTagsCount' = N - 1
              /\ Len(rest) = N - 1
              /\ \A alias \in (-2)..MaxAlias : getTagByAlias(alias)' # T
              /\ \A name \in Names : getTagByName(name)' # T
              /\ \A idx \in 0..(N - 2) : getTagByIdx(idx)' = rest[idx + 1]
              /\ \A idx \in {N - 1} : getTagByIdx(idx)' = NULL
      ]_vars

\* C10 witness: the middle one of three registered tags was deleted and two
\* remain.
C10_Witness ==
    /\ last.op = "deleteTag" /\ last.arg.idx = 1
    /\ _NodeCount = 2
    /\ Len(_tags_array) = 2
    /\ last.tag \notin DOMAIN tags

\* the tags met when the list is traversed from node `current` on
RECURSIVE ListFrom(_)
ListFrom(current) ==
    IF current = NULL THEN <<>>
    ELSE <<nodes[current].tag_ptr>> \o ListFrom(nodes[current].next_node)

\* the registered tags in list order: the most recently inserted first
TagList == ListFrom(_head)

\* the registry: the list, the count and the index array
Registry == <<_head, nodes, _NodeCount, _tags_array>>

\* C11 (as stated): wherever there is an index array, for every
\* i < getTagsCount(), getTagByIdx(i) is the i-th tag met when the list is
\* traversed from its head.
C11_ArrayInListOrder ==
    _tags_array # <<>>
    => \A i \in 0..(getTagsCount - 1) : getTagByIdx(i) = TagList[i + 1]

\* C11 (amended): the index array holds the list in reverse: after every
\* createTag and deleteTag that leaves an index array, the array has
\* getTagsCount() entries and getTagByIdx(i) is the tag at position
\* getTagsCount() - 1 - i of the traversal from the head, so index 0 is the
\* tag inserted longest ago and the head of the list has the highest index.
C11_ArrayInReverseListOrder ==
    /\ Len(TagList) = getTagsCount
    /\ _tags_array # <<>>
        => /\ Len(_tags_array) = getTagsCount
           /\ \A i \in 0..(getTagsCount - 1) : getTagByIdx(i) = TagList[getTagsCount - i]

\* C11 witness: three tags are registered, the last created one is the head
\* of the list and has index 2, the first created one has index 0.
C11_Witness ==
    /\ last.op = "createTag" /\ last.tag = _head
    /\ getTagsCount = 3
    /\ getTagByIdx(2) = _head
    /\ getTagByIdx(0) = TagList[3]
    /\ getTagByIdx(0) # _head

\* C12 (as stated): a createTag during which an allocation fails returns an
\* absent handle and leaves the list, the count, the index array and the set
\* of tag records as they were.
C12_CreationAllOrNothing ==
    [][(last'.op = "createTag" /\ last'.arg.fails # {})
       => /\ last'.tag = NULL
          /\ Registry' = Registry
          /\ tags' = tags
      ]_vars

C14_CountMatchesRegistry ==
    [][/\ last.op = "init" => getTagsCount = 0
       /\ getTagsCount = Len(TagList)
       /\ getTagsCount' = Len(TagList')
       /\ getTagsCount' =
            IF last'.op = "createTag" /\ last'.tag \in Registered' THEN getTagsCount + 1
            ELSE IF last'.op = "deleteTag" /\ last'.ret THEN getTagsCount - 1
            ELSE getTagsCount
      ]_vars

\* C14 witness: with two tags registered, one of them read, a deleteTag has
\* returned false and the count is still 2.
C14_Witness ==
    /\ last.op = "deleteTag" /\ last.ret = FALSE
    /\ getTagsCount = 2
    /\ everRead # {}

\* the reads of the last call: each registered tag once, each with the
\* timestamp the injected function returned (0 without one), which the tag
\* has recorded
ReadEachOnce ==
    /\ Len(last.reads) = getTagsCount
    /\ {last.reads[k].tag : k \in DOMAIN last.reads} = Registered
    /\ \A k \in DOMAIN last.reads :
          /\ last.reads[k].timestamp \in
                (IF _timestamp_function = NullFn THEN {0} ELSE ClockValues)
          /\ tags[last.reads[k].tag].lastRead = last.reads[k].timestamp

C16_DatatypeFixed ==
    [][/\ \A tag \in DOMAIN tags' :
            /\ tags'[tag].currentValue.datatype = tags'[tag].datatype
            /\ tags'[tag].previousValue.datatype = tags'[tag].datatype
       /\ \A tag \in DOMAIN tags \cap DOMAIN tags' :
            tags'[tag].datatype = tags[tag].datatype
       /\ (last'.op = "createTag" /\ last'.tag # NULL)
            => tags'[last'.tag].datatype = last'.arg.datatype
      ]_vars

\* C16 witness: a string tag has recorded two changes, the second by a read
\* that followed a write.
C16_Witness ==
    /\ last.op = "readBasicTag" /\ last.ret = TRUE /\ last.after = "written"
    /\ tags[last.tag].datatype = spString
    /\ tags[last.tag].currentValue.datatype = spString
    /\ tags[last.tag].previousValue.timestamp = 100
    /\ ~tags[last.tag].previousValue.isNull

\* C17: a readBasicTag that returns false leaves currentValue and
\* previousValue (value, isNull, timestamp), the byte buffers and the caller's
\* cells as they were and invokes no change callback; of the tag, only
\* lastRead (set to the read's timestamp) and valueChanged (set to false)
\* are written.
C17_UnchangedReadFrame ==
    [][(last'.op = "readBasicTag" /\ last'.ret = FALSE)
       => /\ tags' = [tags EXCEPT ![last'.tag].lastRead = last'.arg.timestamp,
                                  ![last'.tag].valueChanged = FALSE]
          /\ tags'[last'.tag].currentValue = tags[last'.tag].currentValue
          /\ tags'[last'.tag].previousValue = tags[last'.tag].previousValue
          /\ bufs' = bufs /\ mem' = mem
          /\ last'.cb = <<>>
      ]_vars

\* C17 witness: a string tag with a change callback, holding a value recorded
\* at 100, was read at 0 and the read returned false.
C17_Witness ==
    /\ last.op = "readBasicTag" /\ last.ret = FALSE /\ last.arg.timestamp = 0
    /\ tags[last.tag].datatype = spString
    /\ tags[last.tag].onChange = "observe"
    /\ tags[last.tag].currentValue.timestamp = 100
    /\ tags[last.tag].lastRead = 0
    /\ ~tags[last.tag].currentValue.isNull

\* the value of BasicValue bv of a tag of the datatype: the number, or the
\* string a string buffer holds
ValueOf(datatype, bv) ==
    IF datatype \in StringTypes THEN CStr(bv.value) ELSE bv.value

\* the candidate a read of tag record t finds in the cell: null for a
\* string tag without capacity or with an empty string, else the cell's
\* content, a string cut to buffer_value_max_len
CellIsNull(t, cell) ==
    t.datatype \in StringTypes /\ (t.buffer_value_max_len < 1 \/ strlen(cell) = 0)

CellValue(t, cell) ==
    IF t.datatype \in StringTypes THEN Trunc(CStr(cell), t.buffer_value_max_len) ELSE cell

C19_ValueChangedIsResult ==
    last.op = "readBasicTag" => tags[last.tag].valueChanged = last.ret

\* the aliases the lookups are asked for
AskedAliases == (-2)..(MaxAlias + 1)

\* C20: aliasValid(a) is true exactly when no tag in the list holds alias a,
\* and getTagByAlias(a) returns NULL exactly when aliasValid(a) is true;
\* otherwise it returns a tag of the list that holds a.
C20_AliasValidIffUnheld ==
    \A a \in AskedAliases :
        /\ aliasValid(a) = ~(\E t \in Registered : tags[t].alias = a)
        /\ (getTagByAlias(a) = NULL) = aliasValid(a)
        /\ getTagByAlias(a) # NULL
            => (getTagByAlias(a) \in Registered /\ tags[getTagByAlias(a)].alias = a)

\* C20 witness: two tags are registered with the aliases 1 and 2, the one
\* holding 1 not at the head of the list; alias 3 is held by a tag that was
\* not registered, and aliasValid(3) is true.
C20_Witness ==
    /\ getTagsCount = 2
    /\ ~aliasValid(1) /\ ~aliasValid(2)
    /\ tags[_head].alias # 1
    /\ aliasValid(3)
    /\ \E t \in DOMAIN tags \ Registered : tags[t].alias = 3

\* the first tag of sequence list for which the matcher holds, NULL if none
RECURSIVE FirstMatch(_, _, _)
FirstMatch(list, matcherFn, arg) ==
    IF list = <<>> THEN NULL
    ELSE IF Matches(matcherFn, Head(list), arg) THEN Head(list)
    ELSE FirstMatch(Tail(list), matcherFn, arg)

\* the lookups agree with the traversal of the list from its head
FindsFirstOfList ==
    /\ \A name \in Names : getTagByName(name) = FirstMatch(TagList, "_tag_has_name", name)
    /\ \A alias \in AskedAliases :
            findTag("_tag_has_alias", alias) = FirstMatch(TagList, "_tag_has_alias", alias)

\* C21: the list is kept most-recently-inserted first (createTag puts its tag
\* before all others, deleteTag takes its tag out and keeps the order of the
\* rest), findTag returns the first tag of that order for which the predicate
\* holds, NULL if there is none or the registry is empty; so getTagByName
\* returns the most recently created of the registered tags with that name.
C21_FindsMostRecent ==
    [][/\ FindsFirstOfList /\ FindsFirstOfList'
       /\ (TagList = <<>>) => \A name \in Names : getTagByName(name) = NULL
       /\ last'.op = "createTag" => TagList' = <<last'.tag>> \o TagList
       /\ last'.op = "deleteTag" => TagList' = Without(TagList, last'.tag)
       /\ (last'.op = "createTag" /\ last'.tag # NULL)
            => \A name \in {tags'[last'.tag].name} : getTagByName(name)' = last'.tag
      ]_vars

\* C21 witness: three registered tags have the same name; the one created
\* last is found by that name, and no tag has the other name.
C21_Witness ==
    /\ last.op = "createTag" /\ last.tag = _head
    /\ getTagsCount = 3
    /\ \A t \in Registered : tags[t].name = "testing/float 1"
    /\ getTagByName("testing/float 1") = _head
    /\ getTagByName("testing/string 1") = NULL

\* the payload pointer of the caller's BasicValue v points at something
SlotHolds(v) == mem[v].value # EmptyPayload(mem[v].datatype)

AllocateOps == {"allocateStringValue", "allocateBufferValue"}

DeallocateOps == {"deallocateStringValue", "deallocateBufferValue"}

\* C22 (as stated): for every capacity, allocate on an empty slot succeeds
\* (its malloc succeeding); an allocate that follows a successful allocate
\* on the same slot returns false and leaves the slot as it was; a
\* deallocate that follows a successful allocate on the same slot returns
\* true and leaves the slot empty; deallocate on an empty slot returns false.
C22_SlotProtocol ==
    [][/\ (last'.op \in AllocateOps /\ last'.arg.value # NULL /\ ~last'.arg.failed)
            => (~SlotHolds(last'.arg.value) => last'.ret = TRUE)
       /\ (/\ last.op \in AllocateOps /\ last.ret = TRUE
           /\ last'.op = last.op /\ last'.arg.value = last.arg.value)
            => (last'.ret = FALSE /\ mem' = mem)
       /\ (/\ last.op \in AllocateOps /\ last.ret = TRUE
           /\ last'.op \in DeallocateOps /\ last'.arg.value = last.arg.value)
            => (last'.ret = TRUE /\ \A v \in {last'.arg.value} : ~SlotHolds(v)')
       /\ (last'.op \in DeallocateOps /\ last'.arg.value # NULL)
            => (~SlotHolds(last'.arg.value) => last'.ret = FALSE)
      ]_vars

\* C22 (amended): a slot is allocated when its payload pointer is not NULL.
\* Allocate on an allocated slot returns false and leaves it as it was.
\* Allocate on an empty slot: allocateStringValue with capacity 0 returns
\* true and leaves the slot empty (so it can be repeated, and a deallocate
\* after it returns false); with any other capacity, and allocateBufferValue
\* with any capacity including 0, it returns true and leaves the slot
\* allocated (a zero-filled block of capacity + 1 bytes; a BufferValue of
\* that capacity with written_length 0, without storage when the capacity
\* is 0) unless its malloc fails, in which case it returns false and the
\* slot stays empty.  Deallocate returns true on an allocated slot, false on
\* an empty one, and leaves the slot empty.  Every call on an absent
\* BasicValue returns false.
C22_SlotProtocolByPointer ==
    [][/\ (last'.op \in AllocateOps \cup DeallocateOps /\ last'.arg.value = NULL)
            => (last'.ret = FALSE /\ mem' = mem)
       /\ (last'.op \in AllocateOps /\ last'.arg.value # NULL)
            => \A v \in {last'.arg.value} :
                 IF SlotHolds(v) THEN last'.ret = FALSE /\ mem' = mem
                 ELSE IF last'.op = "allocateStringValue" /\ last'.arg.capacity = 0
                 THEN last'.ret = TRUE /\ mem' = mem
                 ELSE /\ last'.ret = ~last'.arg.failed
                      /\ SlotHolds(v)' = last'.ret
                      /\ (last'.ret /\ last'.op = "allocateStringValue")
                            => mem'[v].value = Zeros(last'.arg.capacity + 1)
                      /\ (last'.ret /\ last'.op = "allocateBufferValue")
                            => /\ mem'[v].value.allocated_length = last'.arg.capacity
                               /\ mem'[v].value.written_length = 0
                               /\ (mem'[v].value.buffer = NULLPTR) = (last'.arg.capacity = 0)
                               /\ (last'.arg.capacity > 0)
                                    => Len(bufs'[mem'[v].value.buffer]) = last'.arg.capacity
       /\ (last'.op \in DeallocateOps /\ last'.arg.value # NULL)
            => \A v \in {last'.arg.value} :
                 /\ last'.ret = SlotHolds(v)
                 /\ ~SlotHolds(v)'
                 /\ mem[v].datatype = spBytes => mem[v].value.buffer \notin DOMAIN bufs'
      ]_vars

\* C22 witness: allocateStringValue with capacity 0 has returned true on a
\* slot that is still empty, while the other slot holds a byte-buffer
\* payload of capacity 0.
C22_Witness ==
    /\ last.op = "allocateStringValue" /\ last.ret = TRUE
    /\ last.arg.capacity = 0 /\ last.arg.value # NULL
    /\ ~SlotHolds(last.arg.value)
    /\ \E v \in DOMAIN mem :
          /\ mem[v].datatype = spBytes /\ SlotHolds(v)
          /\ mem[v].value.allocated_length = 0

\* C23 (as stated): after every readBasicTag of a string-like or byte-buffer
\* tag created with capacity 0, currentValue.isNull is true, whatever the
\* caller's memory cell holds.
C23_ZeroCapacityIsNull ==
    (/\ last.op = "readBasicTag"
     /\ tags[last.tag].datatype \in StringTypes \cup {spBytes}
     /\ tags[last.tag].buffer_value_max_len = 0)
    => tags[last.tag].currentValue.isNull

\* C24 (as stated): the byte storage of currentValue and previousValue of a
\* byte-buffer tag is storage the tag allocated itself (or none), never the
\* storage of the caller's BufferValue, so that a store of the caller into
\* its bytes changes neither value and deleteTag frees only the tag's own
\* storage; the strings a string tag holds are blocks of its own.
C24_OwnedDeepCopies ==
    \A tag \in DOMAIN tags :
        tags[tag].datatype = spBytes
        => /\ tags[tag].currentValue.value.buffer \in {NULLPTR, CurBuf(tag)}
           /\ tags[tag].previousValue.value.buffer \in {NULLPTR, PrevBuf(tag)}
           /\ FreeOk(FreedBufs(tag)[1]) /\ FreeOk(FreedBufs(tag)[2])

\* C25 (as stated): every BufferValue a byte-buffer tag owns has
\* written_length <= allocated_length, its allocated_length is the capacity
\* the tag was created with, and with capacity 0 it has no storage and
\* written_length 0 (the caller's BufferValues all having written_length <=
\* allocated_length).
C25_BufferValueInvariant ==
    \A tag \in DOMAIN tags :
        tags[tag].datatype = spBytes
        => \A bv \in {tags[tag].currentValue.value, tags[tag].previousValue.value} :
              /\ bv.written_length <= bv.allocated_length
              /\ bv.allocated_length = tags[tag].buffer_value_max_len
              /\ tags[tag].buffer_value_max_len = 0
                    => (bv.buffer = NULLPTR /\ bv.written_length = 0)

\* the BufferValue S of the caller is copied into the BufferValue D of the
\* tag's current value by a read that reports a change
CopiedOnRead(tag) ==
    /\ last'.op = "readBasicTag" /\ last'.tag = tag /\ last'.ret
    /\ tag \in DOMAIN tags /\ tags[tag].datatype = spBytes
    /\ tags[tag].value_address # NULL
    /\ tags[tag].currentValue.value.buffer \in DOMAIN bufs \cup {NULLPTR}

\* C26 (as stated): copying S into D with D.allocated_length >= 1 and
\* S.written_length >= 1 puts the first min(S.written_length,
\* D.allocated_length) bytes of S's storage into D's storage, sets
\* D.written_length to that number and leaves D.allocated_length and D's
\* storage reference unchanged; with S.written_length = 0 it zero-fills D's
\* storage and sets D.written_length to 0; with D of no capacity it fails
\* and changes nothing.
C26_BoundedBufferCopy ==
    [][\A tag \in DOMAIN tags :
          CopiedOnRead(tag)
          => LET S == mem[tag]
                 D == tags[tag].currentValue.value
                 Dn == tags'[tag].currentValue.value
                 n == Min(S.written_length, D.allocated_length)
             IN  IF D.allocated_length < 1
                 THEN Dn = D /\ bufs' = bufs
                 ELSE IF S.written_length = 0
                 THEN /\ Dn = [D EXCEPT !.written_length = 0]
                      /\ \A i \in 1..D.allocated_length : bufs'[D.buffer][i] = 0
                 ELSE /\ Dn = [D EXCEPT !.written_length = n]
                      /\ \A i \in 1..n : bufs'[D.buffer][i] = bufs[S.buffer][i]]_vars

\* a read of a byte-buffer tag with the default comparator that follows a
\* store of the caller into its BufferValue, itself following a read that
\* captured the BufferValue as the current value
ReadAfterStore(tag) ==
    /\ last'.op = "readBasicTag" /\ last'.tag = tag
    /\ last.op = "pokeBytes" /\ last.tag = tag /\ last.arg.afterChanged
    /\ tag \in DOMAIN tags /\ tags[tag].datatype = spBytes
    /\ tags[tag].compareFunc = "DefaultCompareFn"
    /\ tags[tag].currentValue.timestamp # 0

\* C27 (as stated): a read of a byte-buffer tag that has been read once
\* returns true if and only if the caller's BufferValue differs from the
\* captured current value in written_length or in one of the written bytes;
\* changing one byte and keeping the length makes the next read report
\* changed.
C27_ByteChangeDetected ==
    [][\A tag \in DOMAIN tags :
          ReadAfterStore(tag)
          => LET now == last.arg.store
                 captured == Min(last.arg.was.written_length, tags[tag].buffer_value_max_len)
             IN  last'.ret = (\/ now.written_length # captured
                              \/ \E i \in 1..now.written_length :
                                    last.arg.bytes[i] # last.arg.wasBytes[i])]_vars

\* a read of a tag with a value_address whose current value or candidate
\* is null
NullRead(tag) ==
    /\ last'.op = "readBasicTag" /\ last'.tag = tag
    /\ tag \in DOMAIN tags /\ tags[tag].value_address # NULL
    /\ (tags[tag].currentValue.isNull \/ CellIsNull(tags[tag], mem[tag]))

\* C28 (as stated): on any read after the tag's first, when the current
\* value or the candidate is null, the read returns
\* currentValue.isNull XOR candidate.isNull.
C28_NullTransitionsAfterFirstRead ==
    [][\A tag \in DOMAIN tags :
          (NullRead(tag) /\ ~last'.first)
          => last'.ret = (tags[tag].currentValue.isNull # CellIsNull(tags[tag], mem[tag]))]_vars

\* C28 (amended): on any read of a tag whose currentValue.timestamp is not
\* 0, when the current value or the candidate is null, the read returns
\* currentValue.isNull XOR candidate.isNull, whatever the comparison
\* function would say: null-to-non-null and non-null-to-null report changed,
\* null-to-null reports unchanged; when both are non-null the read returns
\* what the comparison function returns.  A tag whose currentValue.timestamp
\* is 0 (never read, or read only at timestamp 0) reports changed.
C28_NullTransitions ==
    [][\A tag \in DOMAIN tags :
          (/\ last'.op = "readBasicTag" /\ last'.tag = tag
           /\ tags[tag].value_address # NULL)
          => LET t == tags[tag]
                 newValue == ReadCandidate(tag, last'.arg.timestamp)
             IN  /\ t.currentValue.timestamp = 0 => last'.ret
                 /\ (NullRead(tag) /\ t.currentValue.timestamp # 0)
                       => last'.ret = (t.currentValue.isNull # newValue.isNull)
                 /\ (/\ ~NullRead(tag) /\ t.currentValue.timestamp # 0
                     /\ t.compareFunc # NullFn)
                       => \E indet \in BOOLEAN :
                             last'.ret = DefaultCompareFn(t.currentValue, newValue, bufs, indet)]_vars

\* C28 witness: a string tag whose null current value was recorded at 100
\* has been read with an empty cell, and the read reported unchanged.
C28_Witness ==
    /\ last.op = "readBasicTag" /\ ~last.ret
    /\ last.tag \in DOMAIN tags
    /\ tags[last.tag].datatype = spString
    /\ tags[last.tag].currentValue.isNull
    /\ tags[last.tag].currentValue.timestamp = 100
    /\ CellIsNull(tags[last.tag], mem[last.tag])

\* the write recorded in last stored a null or an empty string
WroteNoString(tag) ==
    /\ last.op = "writeBasicTag" /\ last.tag = tag /\ last.ret
    /\ (last.arg.isNull \/ last.arg.value = <<>> \/ last.arg.value[1] = 0)

\* C29: the candidate of a read of a string-like tag, which every read leaves
\* as the null-ness of currentValue, is null exactly when
\* buffer_value_max_len < 1 or the caller's live string is empty; a read that
\* follows a successful write of a null or empty string leaves
\* currentValue.isNull true, the write having zero-filled the cell up to
\* buffer_value_max_len.
C29_StringCandidateNull ==
    [][/\ \A tag \in DOMAIN tags :
           (/\ last'.op = "readBasicTag" /\ last'.tag = tag
            /\ tags[tag].datatype \in StringTypes /\ tags[tag].value_address # NULL)
           => /\ tags'[tag].currentValue.isNull
                   = (tags[tag].buffer_value_max_len < 1 \/ strlen(mem[tag]) = 0)
              /\ WroteNoString(tag) => tags'[tag].currentValue.isNull
       /\ \A tag \in DOMAIN tags :
           (/\ last'.op = "writeBasicTag" /\ last'.tag = tag /\ last'.ret
            /\ tags[tag].datatype \in StringTypes
            /\ (last'.arg.isNull \/ last'.arg.value = <<>> \/ last'.arg.value[1] = 0))
           => \A i \in 1..Min(tags[tag].buffer_value_max_len, Len(mem'[tag])) :
                 mem'[tag][i] = 0]_vars

\* C29 witness: a string tag with capacity that held a value has been
\* written a null or empty string and then read, and its current value is
\* null.
C29_Witness ==
    /\ last.op = "readBasicTag" /\ last.after = "written" /\ last.ret
    /\ last.tag \in DOMAIN tags
    /\ tags[last.tag].datatype = spString
    /\ tags[last.tag].buffer_value_max_len >= 1
    /\ tags[last.tag].currentValue.isNull
    /\ ~tags[last.tag].previousValue.isNull
    /\ strlen(mem[last.tag]) = 0

\* what readBasicTag(tag, timestamp) on a tag with currentValue.timestamp was
\* leaves in currentValue.timestamp when it returns ret, by the claim
StampAfter(was, timestamp, ret) == IF ret THEN timestamp ELSE was

\* C30 (as stated): every readBasicTag records its timestamp in lastRead,
\* and currentValue.timestamp is the timestamp of the most recent read that
\* reported changed, 0 if none: it is 0 at creation, a read that returns
\* true sets it to the read's timestamp, and nothing else changes it.
C30_TimestampOfLastChange ==
    [][\A tag \in DOMAIN tags' :
          IF tag \notin DOMAIN tags
          THEN tags'[tag].lastRead = 0 /\ tags'[tag].currentValue.timestamp = 0
          ELSE IF last'.op = "readBasicTag" /\ last'.tag = tag
          THEN /\ tags'[tag].lastRead = last'.arg.timestamp
               /\ tags'[tag].currentValue.timestamp
                    = StampAfter(tags[tag].currentValue.timestamp, last'.arg.timestamp, last'.ret)
          ELSE /\ tags'[tag].lastRead = tags[tag].lastRead
               /\ tags'[tag].currentValue.timestamp = tags[tag].currentValue.timestamp]_vars

\* C30 (amended): every readBasicTag records its timestamp in lastRead,
\* changed or not, null or not, with or without a value_address; for a tag
\* with a value_address currentValue.timestamp is the timestamp of the most
\* recent read that reported changed, 0 if none; for a tag without one it
\* stays 0, although every read of it reports changed.
C30_LastReadAndChangeStamp ==
    [][\A tag \in DOMAIN tags' :
          IF tag \notin DOMAIN tags
          THEN tags'[tag].lastRead = 0 /\ tags'[tag].currentValue.timestamp = 0
          ELSE IF last'.op = "readBasicTag" /\ last'.tag = tag
          THEN /\ tags'[tag].lastRead = last'.arg.timestamp
               /\ tags'[tag].currentValue.timestamp
                    = IF tags[tag].value_address = NULL THEN 0
                      ELSE StampAfter(tags[tag].currentValue.timestamp, last'.arg.timestamp, last'.ret)
               /\ tags[tag].value_address = NULL => last'.ret
          ELSE /\ tags'[tag].lastRead = tags[tag].lastRead
               /\ tags'[tag].currentValue.timestamp = tags[tag].currentValue.timestamp]_vars

\* C30 witness: a tag whose value changed at 100 has been read at 0 and
\* found unchanged: lastRead is 0, the current value is still stamped 100.
C30_Witness ==
    /\ last.op = "readBasicTag" /\ ~last.ret /\ last.arg.timestamp = 0
    /\ last.tag \in DOMAIN tags
    /\ tags[last.tag].value_address # NULL
    /\ tags[last.tag].lastRead = 0
    /\ tags[last.tag].currentValue.timestamp = 100

\* C31: readBasicTag on a tag without value_address leaves currentValue and
\* previousValue (value, isNull, timestamp) as they were and invokes no
\* change callback, on the first read and on every later one.
C31_AbsentAddressShortCircuit ==
    [][\A tag \in DOMAIN tags :
          (/\ last'.op = "readBasicTag" /\ last'.tag = tag
           /\ tags[tag].value_address = NULL)
          => /\ tags'[tag].currentValue = tags[tag].currentValue
             /\ tags'[tag].previousValue = tags[tag].previousValue
             /\ last'.cb = <<>>]_vars

\* C31 witness: a tag without value_address that has a change callback
\* registered has been read a second time, at 100.
C31_Witness ==
    /\ last.op = "readBasicTag" /\ last.after = "read" /\ ~last.first
    /\ last.tag \in DOMAIN tags
    /\ tags[last.tag].value_address = NULL
    /\ tags[last.tag].onChange # NullFn
    /\ tags[last.tag].lastRead = 100

\* C32: for a non-null source and destination and max_length >= 1 the copy
\* puts min(strlen(source), max_length) bytes into the destination and the
\* terminator right after them, so the destination then holds the source
\* cut to max_length; an empty source reports success and leaves the
\* destination as it was; a null argument or max_length < 1 reports failure
\* and leaves the destination as it was.
C32_BoundedStringCopy ==
    last.op = "_copy_string_value"
    => LET a == last.arg
           n == Min(strlen(a.reference), a.max)
       IN  IF a.reference = <<>> \/ a.target = <<>> \/ a.max < 1
           THEN ~last.ret /\ a.result = a.target
           ELSE IF strlen(a.reference) = 0
           THEN last.ret /\ a.result = a.target
           ELSE /\ last.ret
                /\ \A i \in 1..n : a.result[i] = a.reference[i]
                /\ a.result[n + 1] = 0
                /\ \A i \in (n + 2)..Len(a.target) : a.result[i] = a.target[i]
                /\ Len(a.result) = Len(a.target) /\ a.over = 0
                /\ CStr(a.result) = Trunc(CStr(a.reference), a.max)

\* C32 witness: the three-byte string 121 has been copied with bound 2 over a
\* destination that held the string 2, which now holds 12.
C32_Witness ==
    /\ last.op = "_copy_string_value" /\ last.ret
    /\ CStr(last.arg.reference) = <<1, 2, 1>> /\ last.arg.max = 2
    /\ CStr(last.arg.target) = <<2>>
    /\ CStr(last.arg.result) = <<1, 2>>

\* C33: after a deleteTag of tag T that succeeds, a createTag with T's
\* former alias gives the new tag that alias, and the tag count is again what
\* it was before the deletion.
C33_DeleteFreesAlias ==
    [][(/\ last.op = "deleteTag" /\ last.ret
        /\ last'.op = "createTag" /\ last'.ret
        /\ last'.arg.alias = last.arg.alias)
       => /\ tags'[last'.tag].alias = last.arg.alias
          /\ getTagsCount' = last.arg.count
          /\ getTagsCount = last.arg.count - 1]_vars

\* C33 witness: as in the example sketch, of two registered tags the one
\* with alias 1 was deleted and has been created again with alias 1; two
\* tags are registered.
C33_Witness ==
    /\ last.op = "createTag" /\ last.ret /\ last.after = "deleted"
    /\ last.arg.alias = 1 /\ tags[last.tag].alias = 1
    /\ getTagsCount = 2

\* C34: the list is kept most-recently-created first (createTag puts its
\* tag before all others, deleteTag takes its tag out), and iterTags with an
\* action that creates and deletes no tag hands the action every registered
\* tag exactly once, in that order, none on an empty registry, and leaves
\* the registry and the tags as they were.
C34_IterVisitsEachOnce ==
    [][/\ last'.op = "createTag" => TagList' = <<last'.tag>> \o TagList
       /\ last'.op = "deleteTag" => TagList' = Without(TagList, last'.tag)
       /\ (last'.op = "iterTags" /\ last'.arg.tagFn = "visit")
            => LET visited == last'.arg.visited
               IN  /\ visited = TagList
                   /\ Len(visited) = getTagsCount
                   /\ \A t \in Registered :
                         Cardinality({i \in DOMAIN visited : visited[i] = t}) = 1
                   /\ \A i \in DOMAIN visited : visited[i] \in Registered
                   /\ _head = NULL => visited = <<>>
                   /\ UNCHANGED <<Registry, tags, mem, bufs, ub>>]_vars

\* C34 witness: iterTags has handed three registered tags to an action that
\* looks at them, the tag at the head of the list first.
C34_Witness ==
    /\ last.op = "iterTags" /\ last.arg.tagFn = "visit"
    /\ Len(last.arg.visited) = 3 /\ getTagsCount = 3
    /\ last.arg.visited[1] = nodes[_head].tag_ptr

\* C35: when the action passed to iterTags deletes the tag it is given and
\* a tag is registered, the traversal reads the link of a node that has been
\* released: the call has undefined behaviour.
C35_DeletingActionReadsFreedNode ==
    [][(/\ last'.op = "iterTags" /\ last'.arg.tagFn = "deleteGiven"
        /\ _head # NULL)
       => /\ ub'
          /\ last'.arg.visited # <<>>
          /\ last'.arg.visited[1] = nodes[_head].tag_ptr
          /\ last'.arg.visited[1] \notin DOMAIN nodes']_vars

\* C35 witness: a freed registry node has been dereferenced: iterTags was
\* given the deleting action on a registry of two tags, and its traversal
\* went on through the link of the released node to the second tag.
C35_Witness ==
    /\ last.op = "iterTags" /\ last.arg.tagFn = "deleteGiven"
    /\ Len(last.arg.visited) = 2
    /\ ub /\ _head = NULL

\* C36 (as stated): no two registered tags hold the same alias, whatever
\* aliases createTag was asked for and in whatever order tags were created
\* and deleted.
C36_AliasesUnique ==
    \A t1 \in Registered, t2 \in Registered :
        tags[t1].alias = tags[t2].alias => t1 = t2

\* C37 (as stated): the alias createTag assigns when the requested alias is
\* held by a registered tag is strictly greater than every alias a
\* registered tag holds, for all aliases of the int range.
C37_AssignedAliasAboveAll ==
    [][(/\ last'.op = "createTag" /\ last'.ret
        /\ ~aliasValid(last'.arg.alias))
       => \A t \in Registered : tags'[last'.tag].alias > tags[t].alias]_vars

\* readAllBasicTags is called right after a call of readAllBasicTags
ReadAllAgain == last.op = "readAllBasicTags" /\ last'.op = "readAllBasicTags"

CellHoldsWritten(cell, v, t) ==
    CASE t.datatype \in FixedTypes -> cell = v.value
      [] t.datatype \in StringTypes -> CStr(cell) = ExpectedStr(v, t.buffer_value_max_len)

\* C39 (for fixed-width and string tags): whenever writeBasicTag returns
\* true, the caller's memory cell holds the candidate value, cut to
\* buffer_value_max_len for a string and empty for a null or empty candidate.
C39_WriteFlagFaithful ==
    [][(/\ last'.op = "writeBasicTag" /\ last'.ret
        /\ tags[last'.tag].datatype # spBytes)
       => CellHoldsWritten(mem'[last'.tag], last'.arg, tags[last'.tag])]_vars

\* C40: no read of a string-like tag, whatever its datatype and its
\* buffer_value_max_len, writes more bytes into the string allocated for
\* currentValue or previousValue than were allocated at creation.
C40_ReadWithinAllocation ==
    [][(/\ last'.op = "readBasicTag"
        /\ tags[last'.tag].datatype \in StringTypes
        /\ ~ub)
       => ~ub']_vars

====
